---- MODULE Spec2Model ----
(***************************************************************************)
(* Verification model of ha-autogen's validation / review / quick-fix core:*)
(*   validator/pipeline.py   validate, validate_dashboard                   *)
(*   validator/*.py          the checks the pipelines run                   *)
(*   quickfix/batch.py       apply_batch                                    *)
(*   quickfix/classifier.py  _involves_sensitive_domain, classify           *)
(*   reviewer/engine.py      _merge_findings, _sort_findings                *)
(*   reviewer/models.py      ReviewFinding, FindingSeverity, FindingCategory*)
(*                                                                         *)
(* Strings are sequences of atoms.  An atom is a run of characters that    *)
(* contains neither "." nor (unless it IS one) a sensitive-domain name, so *)
(* Python's substring test `domain in text` is "some atom equals domain",  *)
(* `f"{domain}." in s` is "domain atom directly followed by the "." atom", *)
(* and s.split(".")[0] is the atoms before the first "." atom.             *)
(***************************************************************************)
EXTENDS Integers, Sequences, FiniteSets, TLC

VARIABLES
    \* ---- apply_batch (quickfix/batch.py)
    batch_args,          \* keyword arguments the caller built each finding from
    enriched_findings,   \* list[EnrichedFinding] handed to apply_batch
    confirmed_sensitive, \* set of confirmed finding ids
    deploy_fn,           \* the injected apply capability (or None)
    quick_fixes,         \* filtered list (line 50)
    results,             \* list[FixApplicationResult]
    deployed,            \* log of deploy_fn calls: positions in quick_fixes
    idx,                 \* loop position in quick_fixes
    bpc,                 \* "idle" | "start" | "loop" | "returned" | "raised"
    batch_return,        \* BatchResult, once returned
    batch_exc,           \* name of the exception apply_batch propagated
    \* ---- classify (quickfix/classifier.py)
    c_finding,           \* ReviewFinding argument
    c_automation,        \* automation argument (Python value or None)
    cpc,                 \* "idle" | "call" | "done"
    c_out,               \* outcome of classify: returned EnrichedFinding or raise
    \* ---- _merge_findings (reviewer/engine.py)
    rule_findings, llm_findings, merged, mpc,
    \* ---- _sort_findings (reviewer/engine.py)
    sort_input, findings, spc,
    \* ---- validate / validate_dashboard (validator/pipeline.py)
    v_fn,                \* "validate" | "validate_dashboard"
    yaml_str,            \* the text argument
    known_entity_ids,    \* the registry's entity ids
    v_result,            \* the ValidationResult being built / returned
    v_ran,               \* the checks that ran, in order
    vpc,                 \* "idle" | "syntax" | "schema" | "cards" | "refs" |
                         \* "services" | "returned" | "raised"
    v_exc,               \* name of the exception the pipeline propagated
    \* ---- the rule checks (reviewer/automation_rules.py)
    r_given,             \* the automation record as the caller built it
    r_automation,        \* the record as the calls so far left it
    r_runs,              \* the calls so far: check, record given, outcome
    \* ---- the dashboard checks (reviewer/dashboard_rules.py)
    d_dashboard,         \* the dashboard argument
    d_known,             \* known_entity_ids: a set or None
    d_areas,             \* areas: a list or None
    d_call,              \* the function called, "none" before the call
    d_pairs,             \* what _collect_dashboard_entities returned to it
    d_findings,          \* the findings it returned
    \* ---- _parse_llm_findings (reviewer/engine.py)
    p_content,           \* the response content
    p_out,               \* the findings returned
    ppc,                 \* "idle" | "call" | "done"
    \* ---- review_automations / review_dashboards (reviewer/engine.py)
    rv_fn,               \* "review_automations" | "review_dashboards"
    rv_automations,      \* the automations argument
    rv_dashboard,        \* the dashboard argument
    rv_known,            \* known_entity_ids
    rv_areas,            \* areas
    rv_llm,              \* what the LLM call does: raise or return a response
    rv_rule_findings,    \* rule_findings
    rv_llm_findings,     \* llm_findings
    rv_usage,            \* model, prompt_tokens, completion_tokens
    rv_result,           \* the ReviewResult, once returned
    rvpc,                \* "idle" | "rules" | "llm" | "merge" | "returned" | "raised"
    rv_exc,              \* name of the exception the review propagated
    \* ---- review_full (reviewer/engine.py)
    fl_automations,      \* the automations argument
    fl_dashboard,        \* the dashboard argument
    fl_llm_auto,         \* what the LLM call of the automation review does
    fl_llm_dash,         \* what the LLM call of the dashboard review does
    fl_auto,             \* auto_result
    fl_dash,             \* dash_result
    fl_result,           \* the ReviewResult, once returned
    flpc,                \* "idle" | "automations" | "dashboards" | "combine" | "returned" | "raised"
    fl_exc,              \* name of the exception review_full propagated
    \* ---- classify_findings, then apply_batch (quickfix/)
    q_args,              \* keyword arguments the findings were built from
    q_automations,       \* the automations argument: a list or None
    q_confirmed,         \* the confirmed set the caller passes on
    q_deploy_fn,         \* the apply capability the caller passes on
    q_out,               \* outcome of classify_findings
    qpc,                 \* "idle" | "classify" | "apply" | "batch" | "raised"
    \* ---- generate_automation (api/generate.py)
    g_mode,              \* body.mode
    g_known,             \* known_entity_ids
    g_attempt,           \* attempt
    g_retries,           \* retries
    g_last_error,        \* last_error
    g_prompts,           \* the error text each LLM call so far was prompted with
    g_llm,               \* llm_response
    g_validations,       \* the validation of each attempt so far
    g_response,          \* the GenerateResponse, once returned
    gpc,                 \* "idle" | "call" | "validate" | "returned" | "raised"
    g_exc,               \* name of the exception the endpoint propagated
    \* ---- _sanitize_url_path (deployer/dashboard_engine.py)
    u_title,             \* title
    u_result,            \* the returned url_path
    upc                  \* "idle" | "call" | "returned"

batchVars == <<batch_args, enriched_findings, confirmed_sensitive, deploy_fn,
               quick_fixes, results, deployed, idx, bpc, batch_return, batch_exc>>
classifyVars == <<c_finding, c_automation, cpc, c_out>>
mergeVars == <<rule_findings, llm_findings, merged, mpc>>
sortVars == <<sort_input, findings, spc>>
validatorVars == <<v_fn, yaml_str, known_entity_ids, v_result, v_ran, vpc, v_exc>>
quickfixReviewVars == <<batchVars, classifyVars, mergeVars, sortVars>>
rulesVars == <<r_given, r_automation, r_runs>>
dashRulesVars == <<d_dashboard, d_known, d_areas, d_call, d_pairs, d_findings>>
parseVars == <<p_content, p_out, ppc>>
reviewVars == <<rv_fn, rv_automations, rv_dashboard, rv_known, rv_areas, rv_llm,
                rv_rule_findings, rv_llm_findings, rv_usage, rv_result, rvpc, rv_exc>>
engineVars == <<parseVars, reviewVars>>
reviewerVars == <<rulesVars, dashRulesVars, engineVars>>
fullVars == <<fl_automations, fl_dashboard, fl_llm_auto, fl_llm_dash, fl_auto, fl_dash,
              fl_result, flpc, fl_exc>>
flowVars == <<q_args, q_automations, q_confirmed, q_deploy_fn, q_out, qpc>>
generateVars == <<g_mode, g_known, g_attempt, g_retries, g_last_error, g_prompts, g_llm,
                  g_validations, g_response, gpc, g_exc>>
sanitizeVars == <<u_title, u_result, upc>>
furtherVars == <<fullVars, flowVars, generateVars, sanitizeVars>>
laterVars == <<validatorVars, reviewerVars, furtherVars>>
earlierVars == <<quickfixReviewVars, validatorVars, reviewerVars>>
vars == <<quickfixReviewVars, laterVars>>

----------------------------------------------------------------------------
(* Python values, tagged by type. *)

None == [t |-> "none"]
Str(s) == [t |-> "str", v |-> s]
List(s) == [t |-> "list", v |-> s]
Dict(f) == [t |-> "dict", v |-> f]
Num(n) == [t |-> "int", v |-> n]

EmptyMap == [k \in {} |-> None]

IsStr(x) == x.t = "str"
IsList(x) == x.t = "list"
IsDict(x) == x.t = "dict"

\* the value of a one-element set: `Only({F(x) : x \in {e}})` is F(e) with
\* e computed once, as a local variable assigned once is
Only(S) == CHOOSE x \in S : TRUE

\* "".join(pieces): the text a sequence of pieces (atoms or characters) spells
RECURSIVE Join(_)
Join(s) == IF Len(s) = 0 THEN "" ELSE s[1] \o Join(Tail(s))

\* bool(x)
Truthy(x) ==
    CASE x.t = "none" -> FALSE
      [] x.t = "str"  -> Len(x.v) > 0
      [] x.t = "list" -> Len(x.v) > 0
      [] x.t = "dict" -> DOMAIN x.v # {}
      [] x.t = "int"  -> x.v # 0

\* d.get(key, default) on a dict value
Get(d, key, default) == IF key \in DOMAIN d.v THEN d.v[key] ELSE default

\* a or b
Or(a, b) == IF Truthy(a) THEN a ELSE b

----------------------------------------------------------------------------
(* reviewer/models.py and quickfix/classifier.py: data model *)

SENSITIVE_DOMAINS == {"lock", "alarm_control_panel", "cover", "camera", "siren"}

FindingSeverity == {"critical", "warning", "suggestion", "info"}

FindingCategory ==
    {"trigger_efficiency", "missing_guards", "deprecated_patterns", "redundancy",
     "security", "error_resilience", "unused_entities", "inconsistent_cards",
     "missing_area_coverage", "card_type_recommendation", "layout_optimization"}

QUICK == "quick"
GUIDED == "guided"

\* The fields class ReviewFinding declares.
ReviewFindingFields ==
    {"severity", "category", "automation_id", "automation_alias", "title",
     "description", "current_yaml", "suggested_yaml"}

\* Defaults of the optional fields.
ReviewFindingDefaults ==
    [automation_id |-> "", automation_alias |-> "",
     current_yaml |-> None, suggested_yaml |-> None]

\* ReviewFinding(**kwargs): a pydantic model with the default configuration
\* keeps the declared fields and ignores every other keyword.
ReviewFinding(kwargs) ==
    LET given == DOMAIN kwargs \cap ReviewFindingFields
        dflt  == DOMAIN ReviewFindingDefaults \ given
    IN  [k \in given \cup dflt |->
            IF k \in given THEN kwargs[k] ELSE ReviewFindingDefaults[k]]

\* obj.name is defined only for a declared field; otherwise the read raises
\* AttributeError.
HasAttr(obj, name) == name \in DOMAIN obj

----------------------------------------------------------------------------
(* quickfix/batch.py *)

MaxBatch == 2

FindingIds == {"f1", "f2"}
AutomationIds == {"a1", "a2"}
FixYamls == {None, Str(<<"service", ":", " ", "x">>)}
NotConfirmedError == <<"Sensitive domain fix not confirmed">>
DeployError == <<"Deploy failed">>

\* EnrichedFinding(finding=ReviewFinding(finding_id=..., ...), fix_type=..., ...)
EnrichedFinding(kw) ==
    [finding |-> ReviewFinding([finding_id |-> kw.finding_id,
                                severity |-> "suggestion",
                                category |-> "deprecated_patterns",
                                automation_id |-> kw.automation_id,
                                title |-> kw.title,
                                description |-> <<"Test description">>]),
     fix_type |-> kw.fix_type,
     fix_yaml |-> kw.fix_yaml,
     requires_confirmation |-> kw.requires_confirmation]

BatchArgs ==
    [finding_id : FindingIds, automation_id : AutomationIds,
     title : {<<"Test fix">>}, fix_type : {QUICK, GUIDED},
     fix_yaml : FixYamls, requires_confirmation : BOOLEAN]

\* deploy_fn: None, or an async callable that raises for some automation ids
DeployFns == {[kind |-> "none"]} \cup
             {[kind |-> "fn", raises |-> r] : r \in SUBSET AutomationIds}

FixApplicationResult(fid, title, aid, success, error) ==
    [finding_id |-> fid, finding_title |-> title, automation_id |-> aid,
     success |-> success, error |-> error]

IsQuickFix(ef) == ef.fix_type = QUICK /\ ef.fix_yaml # None

RECURSIVE CountIf(_, _)
CountIf(s, want) ==
    IF s = <<>> THEN 0
    ELSE (IF s[1].success = want THEN 1 ELSE 0) + CountIf(Tail(s), want)

BatchResult(total, res) ==
    [total |-> total, applied |-> CountIf(res, TRUE),
     failed |-> CountIf(res, FALSE), results |-> res]

NoReturn == [total |-> -1, applied |-> -1, failed |-> -1, results |-> <<>>]

BatchIdle ==
    /\ batch_args = <<>> /\ enriched_findings = <<>> /\ confirmed_sensitive = {}
    /\ deploy_fn = [kind |-> "none"] /\ quick_fixes = <<>> /\ results = <<>>
    /\ deployed = <<>> /\ idx = 0 /\ bpc = "idle"
    /\ batch_return = NoReturn /\ batch_exc = ""

BatchInit ==
    /\ \E n \in 0..MaxBatch : batch_args \in [1..n -> BatchArgs]
    /\ enriched_findings = [i \in DOMAIN batch_args |-> EnrichedFinding(batch_args[i])]
    /\ confirmed_sensitive \in SUBSET FindingIds
    /\ deploy_fn \in DeployFns
    /\ quick_fixes = <<>> /\ results = <<>> /\ deployed = <<>> /\ idx = 0
    /\ bpc = "start" /\ batch_return = NoReturn /\ batch_exc = ""

\* lines 47-55: the filter and the empty result list
BatchFilter ==
    /\ bpc = "start"
    /\ quick_fixes' = SelectSeq(enriched_findings, IsQuickFix)
    /\ results' = <<>>
    /\ idx' = 1
    /\ bpc' = "loop"
    /\ UNCHANGED <<batch_args, enriched_findings, confirmed_sensitive, deploy_fn,
                   deployed, batch_return, batch_exc>>
    /\ UNCHANGED <<classifyVars, mergeVars, sortVars, laterVars>>

\* mutant: every quick fix is handed to the apply function at once
BatchIterate_Unchecked ==
    /\ bpc = "loop" /\ idx <= Len(quick_fixes)
    /\ deployed' = IF deploy_fn.kind = "fn" THEN Append(deployed, idx) ELSE deployed
    /\ results' = Append(results,
                         FixApplicationResult("", quick_fixes[idx].finding.title,
                                              quick_fixes[idx].finding.automation_id,
                                              TRUE, <<>>))
    /\ idx' = idx + 1
    /\ UNCHANGED <<batch_args, enriched_findings, confirmed_sensitive, deploy_fn,
                   quick_fixes, batch_return, bpc, batch_exc>>
    /\ UNCHANGED <<classifyVars, mergeVars, sortVars, laterVars>>

\* lines 57-95: one iteration of `for ef in quick_fixes`
BatchIterate ==
    /\ bpc = "loop" /\ idx <= Len(quick_fixes)
    /\ LET ef == quick_fixes[idx] IN
       IF ~HasAttr(ef.finding, "finding_id")
       THEN \* line 58: fid = ef.finding.finding_id, outside the try block
            /\ bpc' = "raised" /\ batch_exc' = "AttributeError"
            /\ UNCHANGED <<results, deployed, idx>>
       ELSE LET fid == ef.finding.finding_id
                aid == ef.finding.automation_id
            IN  IF ef.requires_confirmation /\ fid \notin confirmed_sensitive
                THEN /\ results' = Append(results,
                            FixApplicationResult(fid, ef.finding.title, aid, FALSE,
                                                 NotConfirmedError))
                     /\ UNCHANGED deployed
                     /\ idx' = idx + 1
                     /\ UNCHANGED <<bpc, batch_exc>>
                ELSE /\ deployed' = IF deploy_fn.kind = "fn"
                                    THEN Append(deployed, idx) ELSE deployed
                     /\ results' = Append(results,
                            IF deploy_fn.kind = "fn" /\ aid \in deploy_fn.raises
                            THEN FixApplicationResult(fid, ef.finding.title, aid,
                                                      FALSE, DeployError)
                            ELSE FixApplicationResult(fid, ef.finding.title, aid,
                                                      TRUE, <<>>))
                     /\ idx' = idx + 1
                     /\ UNCHANGED <<bpc, batch_exc>>
    /\ UNCHANGED <<batch_args, enriched_findings, confirmed_sensitive, deploy_fn,
                   quick_fixes, batch_return>>
    /\ UNCHANGED <<classifyVars, mergeVars, sortVars, laterVars>>

\* lines 97-102
BatchReturn ==
    /\ bpc = "loop" /\ idx > Len(quick_fixes)
    /\ batch_return' = BatchResult(Len(quick_fixes), results)
    /\ bpc' = "returned"
    /\ UNCHANGED <<batch_args, enriched_findings, confirmed_sensitive, deploy_fn,
                   quick_fixes, results, deployed, idx, batch_exc>>
    /\ UNCHANGED <<classifyVars, mergeVars, sortVars, laterVars>>

----------------------------------------------------------------------------
(* quickfix/classifier.py *)

QUICK_FIX_CATEGORIES ==
    {"deprecated_patterns", "card_type_recommendation", "inconsistent_cards"}

GUIDED_FIX_CATEGORIES ==
    {"security", "redundancy", "error_resilience", "layout_optimization",
     "missing_area_coverage", "unused_entities"}

\* `domain in text` for some sensitive domain
ContainsSensitive(s) == \E i \in 1..Len(s) : s[i] \in SENSITIVE_DOMAINS

\* `f"{domain}." in yaml_str` for some sensitive domain
ContainsSensitiveDot(s) ==
    \E i \in 1..(Len(s) - 1) : s[i] \in SENSITIVE_DOMAINS /\ s[i + 1] = "."

\* s.split(".")[0]
SplitFirst(s) ==
    LET dots == {i \in 1..Len(s) : s[i] = "."}
    IN  IF dots = {} THEN s
        ELSE SubSeq(s, 1, (CHOOSE i \in dots : \A j \in dots : i <= j) - 1)

\* x.split(".")[0] in SENSITIVE_DOMAINS, for a str x
DomainIsSensitive(s) == \E d \in SENSITIVE_DOMAINS : SplitFirst(s) = <<d>>

\* mutant: data.entity_id is not looked at
CheckAction_NoData(action) ==
    IF ~IsDict(action) THEN "next"
    ELSE
    LET service == Get(action, "service", Str(<<>>)) IN
    IF ~IsStr(service) THEN "AttributeError"
    ELSE IF DomainIsSensitive(service.v) THEN "true"
    ELSE
    LET target == Or(Get(action, "target", Dict(EmptyMap)), Dict(EmptyMap)) IN
    IF ~IsDict(target) THEN "AttributeError"
    ELSE
    LET e0 == Get(target, "entity_id", List(<<>>))
        entity_ids == IF IsStr(e0) THEN List(<<e0>>) ELSE e0
    IN
    IF ~IsList(entity_ids) THEN "TypeError"
    ELSE IF \E i \in 1..Len(entity_ids.v) :
                IsStr(entity_ids.v[i]) /\ DomainIsSensitive(entity_ids.v[i].v)
         THEN "true" ELSE "next"

\* lines 64-80: the body of `for action in actions`.  "next" = fall through
\* to the next action, "true" = return True, otherwise the exception raised.
CheckAction(action) ==
    IF ~IsDict(action) THEN "next"
    ELSE
    LET service == Get(action, "service", Str(<<>>)) IN
    IF ~IsStr(service) THEN "AttributeError"            \* service.split
    ELSE IF DomainIsSensitive(service.v) THEN "true"
    ELSE
    LET target == Or(Get(action, "target", Dict(EmptyMap)), Dict(EmptyMap)) IN
    IF ~IsDict(target) THEN "AttributeError"             \* target.get
    ELSE
    LET e0 == Get(target, "entity_id", List(<<>>))
        entity_ids == IF IsStr(e0) THEN List(<<e0>>) ELSE e0
        data == Or(Get(action, "data", Dict(EmptyMap)), Dict(EmptyMap))
    IN
    IF ~IsDict(data) THEN "AttributeError"               \* data.get
    ELSE
    LET d0 == Get(data, "entity_id", List(<<>>))
        data_eids == IF IsStr(d0) THEN List(<<d0>>) ELSE d0
    IN
    IF ~(IsList(entity_ids) /\ IsList(data_eids)) THEN "TypeError"  \* a + b / iteration
    ELSE
    LET all == entity_ids.v \o data_eids.v IN
    IF \E i \in 1..Len(all) : IsStr(all[i]) /\ DomainIsSensitive(all[i].v)
    THEN "true" ELSE "next"

RECURSIVE CheckActions(_)
CheckActions(items) ==
    IF items = <<>> THEN "next"
    ELSE LET r == CheckAction(items[1])
         IN  IF r = "next" THEN CheckActions(Tail(items)) ELSE r

\* lines 59-63: the action list of a truthy automation record
CheckAutomation(automation) ==
    LET a0 == Or(Or(Get(automation, "action", None), Get(automation, "actions", None)),
                 List(<<>>))
        actions == IF IsDict(a0) THEN List(<<a0>>) ELSE a0
    IN  CASE actions.t = "list" -> CheckActions(actions.v)
          [] actions.t = "str"  -> "next"        \* iterates characters: none is a dict
          [] OTHER              -> "TypeError"   \* not iterable

\* _involves_sensitive_domain: "true" / "false", or the exception raised
involves_sensitive_domain(finding, automation) ==
    LET text == finding.title \o <<" ">> \o finding.description IN
    IF ContainsSensitive(text) THEN "true"
    ELSE
    LET a == IF Truthy(automation) THEN CheckAutomation(automation) ELSE "next" IN
    IF a # "next" THEN a
    ELSE IF \E y \in {finding.current_yaml, finding.suggested_yaml} :
                Truthy(y) /\ ContainsSensitiveDot(y.v)
         THEN "true" ELSE "false"

\* mutant: the sensitivity override of missing_guards is lost
DecideFixType_NoOverride(category, involves_sensitive) ==
    IF category \in GUIDED_FIX_CATEGORIES THEN GUIDED
    ELSE IF category \in QUICK_FIX_CATEGORIES \cup {"missing_guards"} THEN QUICK
    ELSE GUIDED

\* lines 99-112: the decision table
DecideFixType(category, involves_sensitive) ==
    IF category \in GUIDED_FIX_CATEGORIES THEN GUIDED
    ELSE IF category = "missing_guards" /\ involves_sensitive THEN GUIDED
    ELSE IF category \in QUICK_FIX_CATEGORIES THEN QUICK
    ELSE IF category = "missing_guards" /\ ~involves_sensitive THEN QUICK
    ELSE IF category = "trigger_efficiency" THEN GUIDED
    ELSE GUIDED

Return(v) == [k |-> "return", v |-> v]
Raise(e) == [k |-> "raise", e |-> e]

\* mutant: a QUICK candidate without fix YAML is not downgraded
BuildEnriched_NoDowngrade(finding, involves_sensitive) ==
    LET candidate == DecideFixType(finding.category, involves_sensitive)
        has_yaml == candidate = QUICK /\ Truthy(finding.suggested_yaml)
    IN  [finding |-> finding, fix_type |-> candidate,
         fix_yaml |-> IF has_yaml THEN finding.suggested_yaml ELSE None,
         requires_confirmation |-> involves_sensitive,
         fix_description |-> IF has_yaml
                             THEN <<"Apply suggested fix from review analysis">>
                             ELSE <<>>]

\* lines 114-131, given the sensitivity result
BuildEnriched(finding, involves_sensitive) ==
    LET candidate == DecideFixType(finding.category, involves_sensitive)
        has_yaml == candidate = QUICK /\ Truthy(finding.suggested_yaml)
        fix_yaml == IF has_yaml THEN finding.suggested_yaml ELSE None
        fix_description == IF has_yaml
                           THEN <<"Apply suggested fix from review analysis">>
                           ELSE <<>>
        fix_type == IF candidate = QUICK /\ fix_yaml = None THEN GUIDED ELSE candidate
    IN  [finding |-> finding, fix_type |-> fix_type, fix_yaml |-> fix_yaml,
         requires_confirmation |-> involves_sensitive,
         fix_description |-> fix_description]

classify(finding, automation) ==
    LET inv == involves_sensitive_domain(finding, automation) IN
    IF inv \notin {"true", "false"} THEN Raise(inv)
    ELSE Return(BuildEnriched(finding, inv = "true"))

----------------------------------------------------------------------------
(* classify: inputs *)

MaxTitleLen == 2
MaxYamlLen == 2
MaxActions == 2

Strs(alphabet, n) == UNION {[1..k -> alphabet] : k \in 0..n}

\* ReviewFinding(...) as the reviewer and the LLM parser build it
MkFinding(category, title, description, current_yaml, suggested_yaml) ==
    ReviewFinding([severity |-> "suggestion", category |-> category,
                   automation_id |-> "a1", title |-> title,
                   description |-> description, current_yaml |-> current_yaml,
                   suggested_yaml |-> suggested_yaml])

Titles == Strs({"lock", "b"}, MaxTitleLen)
Descriptions == {<<"x">>, <<"cover">>}
CurrentYamls == {None, Str(<<"siren">>), Str(<<"siren", ".", "x">>)}
SuggestedYamls == {None} \cup {Str(y) : y \in Strs({"lock", "."}, MaxYamlLen)}

Findings ==
    {MkFinding(c, t, d, cy, sy) :
        c \in FindingCategory, t \in Titles, d \in Descriptions,
        cy \in CurrentYamls, sy \in SuggestedYamls}

FindingsSmall ==
    {MkFinding(c, t, <<"x">>, None, sy) :
        c \in {"missing_guards", "deprecated_patterns", "security"},
        t \in {<<"b">>, <<"lock">>},
        sy \in {None, Str(<<"light", ".", "x">>), Str(<<"lock", ".", "x">>)}}

Absent == [t |-> "absent"]
Opt(key, val) == IF val = Absent THEN EmptyMap ELSE (key :> val)

Template == Str(<<"{{ tpl }}">>)
LightEid == Str(<<"light", ".", "living">>)
LockEid == Str(<<"lock", ".", "front_door">>)
CameraEid == Str(<<"camera", ".", "front">>)

ServiceVals ==
    {Absent, None, Str(<<"light", ".", "turn_on">>), Str(<<"cover", ".", "open_cover">>)}
TargetVals ==
    {Absent, None, Template, Dict(EmptyMap),
     Dict("entity_id" :> LightEid), Dict("entity_id" :> LockEid),
     Dict("entity_id" :> List(<<LightEid, CameraEid>>)),
     Dict("entity_id" :> None)}
DataVals ==
    {Absent, Template, Dict("entity_id" :> CameraEid), Dict("entity_id" :> None),
     Dict("brightness" :> Num(255))}

MkAction(service, target, data) ==
    Dict(Opt("service", service) @@ Opt("target", target) @@ Opt("data", data))

ActionsFull ==
    {MkAction(sv, tg, d) : sv \in ServiceVals, tg \in TargetVals, d \in DataVals}

\* representative actions for multi-action lists: benign, sensitive by service /
\* target / data, ill-typed service / data, and a list item that is no dict
CoreActions ==
    {MkAction(Str(<<"light", ".", "turn_on">>), Dict("entity_id" :> LightEid), Absent),
     MkAction(Str(<<"cover", ".", "open_cover">>), Absent, Absent),
     MkAction(Str(<<"homeassistant", ".", "turn_on">>), Dict("entity_id" :> LockEid), Absent),
     MkAction(Str(<<"homeassistant", ".", "turn_on">>), Absent, Dict("entity_id" :> CameraEid)),
     MkAction(Str(<<"light", ".", "turn_on">>), Absent, Template),
     MkAction(None, Absent, Absent),
     Str(<<"delay">>)}

CoreLists == UNION {[1..k -> CoreActions] : k \in 0..MaxActions}

AutoId == "id" :> Str(<<"a1">>)

Automations ==
    {None, Dict(EmptyMap), Dict(AutoId)}
    \cup {Dict(AutoId @@ ("action" :> List(<<a>>))) : a \in ActionsFull}
    \cup {Dict(AutoId @@ (k :> List(l))) : k \in {"action", "actions"}, l \in CoreLists}
    \cup {Dict(AutoId @@ ("action" :> a)) : a \in CoreActions}
    \cup {Dict(AutoId @@ ("action" :> List(<<>>)) @@ ("actions" :> List(l))) : l \in CoreLists}
    \cup {Dict(AutoId @@ ("action" :> Num(5)))}

AutomationsSmall ==
    {None,
     Dict(AutoId @@ ("action" :> List(<<MkAction(Str(<<"light", ".", "turn_on">>),
                                                 Dict("entity_id" :> LightEid), Absent)>>))),
     Dict(AutoId @@ ("action" :> List(<<MkAction(Str(<<"cover", ".", "open_cover">>),
                                                 Absent, Absent)>>))),
     Dict(AutoId @@ ("action" :> List(<<MkAction(Str(<<"light", ".", "turn_on">>),
                                                 Absent, Template)>>)))}

NoOutcome == [k |-> "none"]

ClassifyIdle ==
    /\ c_finding = MkFinding("security", <<>>, <<>>, None, None)
    /\ c_automation = None /\ cpc = "idle" /\ c_out = NoOutcome

ClassifyInit ==
    /\ \/ c_finding \in Findings /\ c_automation \in AutomationsSmall
       \/ c_finding \in FindingsSmall /\ c_automation \in Automations
    /\ cpc = "call" /\ c_out = NoOutcome

\* one call classify(finding, automation)
ClassifyCall ==
    /\ cpc = "call"
    /\ c_out' = classify(c_finding, c_automation)
    /\ cpc' = "done"
    /\ UNCHANGED <<c_finding, c_automation>>
    /\ UNCHANGED <<batchVars, mergeVars, sortVars, laterVars>>

----------------------------------------------------------------------------
(* reviewer/engine.py: _merge_findings.  Titles here are sequences of single *)
(* characters, so title[:30] is the first 30 elements.  `origin` and `pos`   *)
(* stand for object identity (which list a finding came from, and where);    *)
(* the merge never reads them.                                               *)

TitlePrefixLen == 30
MaxMerge == 3

Pad(n) == [i \in 1..n |-> "a"]

MergeTitles ==
    {Pad(TitlePrefixLen) \o <<"a">>,       \* 31 characters
     Pad(TitlePrefixLen) \o <<"b">>,       \* same first 30, differs at 31
     Pad(TitlePrefixLen - 1) \o <<"b">>}   \* differs at character 30

MergeFindings ==
    [automation_id : {"a1", "a2"}, category : {"security", "redundancy"},
     title : MergeTitles]

Tagged(list, origin) ==
    [i \in DOMAIN list |->
        [origin |-> origin, pos |-> i, automation_id |-> list[i].automation_id,
         category |-> list[i].category, title |-> list[i].title]]

\* title[:30]
TitlePrefix(title) ==
    LET text == Join(title)
    IN  SubSeq(text, 1, IF Len(text) < TitlePrefixLen THEN Len(text) ELSE TitlePrefixLen)

\* mutant: the key takes the whole title instead of title[:30]
DedupKey_FullTitle(f) == <<f.automation_id, f.category, f.title>>

\* key = (f.automation_id, f.category.value, f.title[:30])
DedupKey(f) == <<f.automation_id, f.category, TitlePrefix(f.title)>>

\* mutant: the key of a kept LLM finding is not remembered
RECURSIVE AddLlm_SeenNotUpdated(_, _, _)
AddLlm_SeenNotUpdated(llm, seen, acc) ==
    IF llm = <<>> THEN acc
    ELSE IF DedupKey(llm[1]) \notin seen
         THEN AddLlm_SeenNotUpdated(Tail(llm), seen, Append(acc, llm[1]))
         ELSE AddLlm_SeenNotUpdated(Tail(llm), seen, acc)

\* lines 309-313: `for f in llm_findings`
RECURSIVE AddLlm(_, _, _)
AddLlm(llm, seen, acc) ==
    IF llm = <<>> THEN acc
    ELSE LET f == llm[1]
             key == DedupKey(f)
         IN  IF key \notin seen
             THEN AddLlm(Tail(llm), seen \cup {key}, Append(acc, f))
             ELSE AddLlm(Tail(llm), seen, acc)

\* lines 303-306 (`for f in rule_findings`: every one is kept), then the loop above
merge_findings(rule, llm) ==
    AddLlm(llm, {DedupKey(rule[i]) : i \in DOMAIN rule}, rule)

MergeIdle ==
    rule_findings = <<>> /\ llm_findings = <<>> /\ merged = <<>> /\ mpc = "idle"

MergeInit ==
    /\ \E na \in 0..MaxMerge : \E nb \in 0..(MaxMerge - na) :
          \E a \in [1..na -> MergeFindings] : \E b \in [1..nb -> MergeFindings] :
              /\ rule_findings = Tagged(a, "rule")
              /\ llm_findings = Tagged(b, "llm")
    /\ merged = <<>> /\ mpc = "call"

MergeCall ==
    /\ mpc = "call"
    /\ merged' = merge_findings(rule_findings, llm_findings)
    /\ mpc' = "done"
    /\ UNCHANGED <<rule_findings, llm_findings>>
    /\ UNCHANGED <<batchVars, classifyVars, sortVars, laterVars>>

----------------------------------------------------------------------------
(* reviewer/engine.py: _sort_findings (list.sort with a key: a stable sort) *)

MaxSort == 4

\* severity_order (the .get default 99 is for a value outside the enum)
SeverityOrder(severity) ==
    CASE severity = "critical"   -> 0
      [] severity = "warning"    -> 1
      [] severity = "suggestion" -> 2
      [] severity = "info"       -> 3
      [] OTHER                   -> 99

\* mutant: x goes in front of the elements with an equal key (an unstable sort)
RECURSIVE InsertByKey_BeforeEqual(_, _)
InsertByKey_BeforeEqual(sorted, x) ==
    IF sorted = <<>> THEN <<x>>
    ELSE IF SeverityOrder(sorted[1].severity) < SeverityOrder(x.severity)
         THEN <<sorted[1]>> \o InsertByKey_BeforeEqual(Tail(sorted), x)
         ELSE <<x>> \o sorted

\* x goes behind every element whose key is <= its own
RECURSIVE InsertByKey(_, _)
InsertByKey(sorted, x) ==
    IF sorted = <<>> THEN <<x>>
    ELSE IF SeverityOrder(sorted[1].severity) <= SeverityOrder(x.severity)
         THEN <<sorted[1]>> \o InsertByKey(Tail(sorted), x)
         ELSE <<x>> \o sorted

RECURSIVE SortFrom(_, _)
SortFrom(rest, sorted) ==
    IF rest = <<>> THEN sorted
    ELSE SortFrom(Tail(rest), InsertByKey(sorted, rest[1]))

\* findings.sort(key=lambda f: severity_order.get(f.severity, 99))
sort_findings(list) == SortFrom(list, <<>>)

SortIdle == sort_input = <<>> /\ findings = <<>> /\ spc = "idle"

SortInit ==
    /\ \E n \in 0..MaxSort : \E sv \in [1..n -> FindingSeverity] :
          sort_input = [i \in 1..n |-> [severity |-> sv[i], pos |-> i]]
    /\ findings = sort_input
    /\ spc = "call"

\* in place: the list object itself is reordered
SortCall ==
    /\ spc = "call"
    /\ findings' = sort_findings(findings)
    /\ spc' = "sorted"
    /\ UNCHANGED sort_input
    /\ UNCHANGED <<batchVars, classifyVars, mergeVars, laterVars>>

----------------------------------------------------------------------------
(* validator/models.py, validator/yaml_syntax.py                           *)
(*                                                                         *)
(* A text is known by what it is to `not yaml_str`, to str.strip() and to  *)
(* ruamel's YAML().load: empty, blank, or YAML text with the value (or the *)
(* YAMLError) the parser yields for it.  ruamel's containers are           *)
(* CommentedMap / CommentedSeq, subclasses of dict / list that carry the   *)
(* `ruamel` mark here.  Mapping keys are iterated in document order, which *)
(* for the documents of this model is KeyOrder.                            *)

ValidationSeverity == {"error", "warning", "info"}

ValidationIssue(severity, check_name, message, line, suggestion) ==
    [severity |-> severity, check_name |-> check_name, message |-> message,
     line |-> line, suggestion |-> suggestion]

\* pydantic's validation of the field `yaml_parsed: dict[str, Any] | None`
YamlParsedAccepted(x) == x = None \/ IsDict(x)
YamlParsedField(x) == IF IsDict(x) THEN Dict(x.v) ELSE x

\* ValidationResult(valid=..., issues=..., yaml_parsed=...)
ValidationResult(valid, issues, yaml_parsed) ==
    IF YamlParsedAccepted(yaml_parsed)
    THEN Return([valid |-> valid, issues |-> issues,
                 yaml_parsed |-> YamlParsedField(yaml_parsed)])
    ELSE Raise("ValidationError")

\* the value YAML().load builds: every mapping a CommentedMap, every
\* sequence a CommentedSeq
RECURSIVE Commented(_)
Commented(x) ==
    CASE IsDict(x) -> [t |-> "dict", ruamel |-> TRUE,
                       v |-> [k \in DOMAIN x.v |-> Commented(x.v[k])]]
      [] IsList(x) -> [t |-> "list", ruamel |-> TRUE,
                       v |-> [i \in DOMAIN x.v |-> Commented(x.v[i])]]
      [] OTHER     -> x

\* isinstance(x, CommentedMap) / isinstance(x, CommentedSeq)
IsRuamel(x) == "ruamel" \in DOMAIN x

\* hasattr(parsed, "items")
HasItems(x) == IsDict(x)

YAMLError(message, problem_line) ==
    [t |-> "YAMLError", message |-> message, problem_line |-> problem_line]

EmptyText == [chars |-> "empty"]
BlankText == [chars |-> "blank"]
YamlText(load) == [chars |-> "yaml", load |-> load]

\* mutant: the syntax failure is reported at the wrong severity
SyntaxIssue_AsWarning(message, line) ==
    ValidationIssue("warning", "yaml_syntax", message, line, None)

SyntaxIssue(message, line) ==
    ValidationIssue("error", "yaml_syntax", message, line, None)

check_yaml_syntax(text) ==
    IF text.chars \in {"empty", "blank"}
    THEN ValidationResult(FALSE, <<SyntaxIssue(<<"Empty YAML output">>, None)>>, None)
    ELSE
    LET parsed == text.load IN
    IF parsed.t = "YAMLError"
    THEN LET line == IF parsed.problem_line # None
                     THEN Num(parsed.problem_line.v + 1) ELSE None
         IN  ValidationResult(FALSE, <<SyntaxIssue(<<parsed.message>>, line)>>, None)
    ELSE IF parsed = None
    THEN ValidationResult(FALSE,
             <<SyntaxIssue(<<"YAML parsed to empty/null value">>, None)>>, None)
    ELSE
    LET parsed_dict == IF HasItems(parsed) THEN Dict(parsed.v) ELSE parsed
    IN  ValidationResult(TRUE, <<>>, parsed_dict)

----------------------------------------------------------------------------
(* validator/entity_refs.py, validator/service_calls.py *)

KeyOrder ==
    <<"id", "alias", "title", "views", "type", "entity", "entity_id", "entities",
      "cards", "trigger", "triggers", "platform", "seconds", "minutes",
      "condition", "conditions", "action", "actions", "service", "target", "data">>

\* the keys of a mapping, in document order
Keys(d) == SelectSeq(KeyOrder, LAMBDA k : k \in DOMAIN d.v)

RECURSIVE Flatten(_)
Flatten(ss) == IF Len(ss) = 0 THEN <<>> ELSE Head(ss) \o Flatten(Tail(ss))

\* atoms of [a-z][a-z0-9_]* and of [0-9_][a-z0-9_]*
LowerWords ==
    {"light", "lock", "sensor", "climate", "kitchen", "kitchn", "front_door",
     "temp", "living", "turn_on", "homeassistant", "foo"}
DigitWords == {"1st_floor"}

\* ENTITY_ID_RE.match(value): ^[a-z][a-z0-9_]*\.[a-z0-9_]+$
MatchesEntityId(s) ==
    /\ Len(s) = 3
    /\ s[1] \in LowerWords
    /\ s[2] = "."
    /\ s[3] \in LowerWords \cup DigitWords

IsEntityIdStr(x) == IsStr(x) /\ MatchesEntityId(x.v)

\* the matching strings of a list, each tagged with the path
MatchingItems(value, current_path) ==
    Flatten([i \in DOMAIN value.v |->
                IF IsEntityIdStr(value.v[i])
                THEN <<(<<value.v[i], current_path>>)>> ELSE <<>>])

\* the `entities` branch: strings, and maps with an `entity` key
EntitiesItems(value, current_path) ==
    Flatten([i \in DOMAIN value.v |->
        LET item == value.v[i] IN
        IF IsEntityIdStr(item) THEN <<(<<item, current_path>>)>>
        ELSE IF IsDict(item) /\ "entity" \in DOMAIN item.v
                /\ IsEntityIdStr(item.v["entity"])
             THEN <<(<<item.v["entity"], current_path>>)>>
        ELSE <<>>])

\* mutant: only the values of unrecognized keys are walked into
RECURSIVE extract_entity_ids_NotUnderEntities(_, _)
extract_entity_ids_NotUnderEntities(obj, path) ==
    IF IsDict(obj) THEN
        Flatten([i \in DOMAIN Keys(obj) |->
            LET key == Keys(obj)[i]
                value == obj.v[key]
                current_path == IF path # "" THEN path \o "." \o key ELSE key
            IN  IF key \in {"entity_id", "entity"} THEN
                    IF IsEntityIdStr(value) THEN <<(<<value, current_path>>)>>
                    ELSE IF IsList(value) THEN MatchingItems(value, current_path)
                    ELSE <<>>
                ELSE IF key = "entities" THEN
                    (IF IsList(value) THEN EntitiesItems(value, current_path) ELSE <<>>)
                ELSE extract_entity_ids_NotUnderEntities(value, current_path)])
    ELSE IF IsList(obj) THEN
        Flatten([i \in DOMAIN obj.v |->
            extract_entity_ids_NotUnderEntities(obj.v[i],
                                                path \o "[" \o ToString(i - 1) \o "]")])
    ELSE <<>>

RECURSIVE extract_entity_ids(_, _)
extract_entity_ids(obj, path) ==
    IF IsDict(obj) THEN
        Flatten([i \in DOMAIN Keys(obj) |->
            LET key == Keys(obj)[i]
                value == obj.v[key]
                current_path == IF path # "" THEN path \o "." \o key ELSE key
            IN  IF key \in {"entity_id", "entity"} THEN
                    IF IsEntityIdStr(value) THEN <<(<<value, current_path>>)>>
                    ELSE IF IsList(value) THEN MatchingItems(value, current_path)
                    ELSE <<>>
                ELSE IF key = "entities" THEN
                    (IF IsList(value) THEN EntitiesItems(value, current_path) ELSE <<>>)
                    \o extract_entity_ids(value, current_path)
                ELSE extract_entity_ids(value, current_path)])
    ELSE IF IsList(obj) THEN
        Flatten([i \in DOMAIN obj.v |->
            extract_entity_ids(obj.v[i], path \o "[" \o ToString(i - 1) \o "]")])
    ELSE <<>>

KitchenEid == Str(<<"light", ".", "kitchen">>)
KitchnEid == Str(<<"light", ".", "kitchn">>)
TempEid == Str(<<"sensor", ".", "temp">>)

\* difflib.get_close_matches(entity_id, list(known), n=1, cutoff=0.6) over
\* the ids of this model: light.kitchn is within the cutoff of light.kitchen
\* (ratio 0.96); no other pair is
get_close_matches(entity_id, known) ==
    IF entity_id = KitchnEid /\ KitchenEid \in known THEN <<KitchenEid>> ELSE <<>>

check_entity_refs(parsed_yaml, known) ==
    LET found_refs == extract_entity_ids(parsed_yaml, "") IN
    Flatten([i \in DOMAIN found_refs |->
        LET entity_id == found_refs[i][1]
            path == found_refs[i][2]
            matches == get_close_matches(entity_id, known)
            suggestion == IF Len(matches) > 0
                          THEN Str(<<"Did you mean: ">> \o matches[1].v \o <<"?">>)
                          ELSE None
        IN  IF entity_id \notin known
            THEN <<ValidationIssue("warning", "entity_refs",
                       <<"Unknown entity_id '">> \o entity_id.v \o <<"' at ", path>>,
                       None, suggestion)>>
            ELSE <<>>])

KNOWN_DOMAINS ==
    {"alarm_control_panel", "automation", "button", "camera", "climate", "counter",
     "cover", "fan", "homeassistant", "humidifier", "input_boolean", "input_button",
     "input_datetime", "input_number", "input_select", "input_text", "light", "lock",
     "media_player", "notify", "number", "remote", "scene", "script", "select",
     "siren", "switch", "timer", "tts", "vacuum", "water_heater", "zone"}

RECURSIVE extract_service_calls(_)
extract_service_calls(obj) ==
    IF IsDict(obj) THEN
        Flatten([i \in DOMAIN Keys(obj) |->
            LET key == Keys(obj)[i]
                value == obj.v[key]
            IN  IF key = "service" /\ IsStr(value) THEN <<value>>
                ELSE extract_service_calls(value)])
    ELSE IF IsList(obj) THEN
        Flatten([i \in DOMAIN obj.v |-> extract_service_calls(obj.v[i])])
    ELSE <<>>

ServiceSuggestion ==
    Str(<<"Common domains: light, switch, automation, climate, cover, media_player">>)

check_service_calls(parsed_yaml) ==
    LET services == extract_service_calls(parsed_yaml) IN
    Flatten([i \in DOMAIN services |->
        LET service == services[i].v
            domain == SplitFirst(service)
        IN  IF ~(\E j \in 1..Len(service) : service[j] = ".")
            THEN <<ValidationIssue("warning", "service_calls",
                       <<"Malformed service call '">> \o service
                           \o <<"' - expected 'domain.action' format">>,
                       None, None)>>
            ELSE IF ~(Len(domain) = 1 /\ domain[1] \in KNOWN_DOMAINS)
            THEN <<ValidationIssue("warning", "service_calls",
                       <<"Unknown service domain '">> \o domain \o <<"' in '">>
                           \o service \o <<"'">>,
                       None, ServiceSuggestion)>>
            ELSE <<>>])

----------------------------------------------------------------------------
(* validator/dashboard_schema.py *)

VALID_CARD_TYPES ==
    {"entities", "gauge", "glance", "history-graph", "horizontal-stack",
     "vertical-stack", "media-control", "thermostat", "weather-forecast",
     "picture-entity", "button", "light", "markdown", "map", "conditional",
     "grid", "statistics-graph", "logbook", "calendar", "energy-date-selection",
     "energy-usage-graph", "alarm-panel", "humidifier", "sensor", "tile", "area",
     "heading", "sections"}

EntityRequired ==
    {"gauge", "thermostat", "media-control", "weather-forecast", "picture-entity",
     "button", "light", "humidifier", "sensor", "tile", "alarm-panel"}

CARD_REQUIRED_FIELDS == [ct \in EntityRequired |-> <<"entity">>]

StackTypes == {"horizontal-stack", "vertical-stack", "grid"}

\* the text an f-string renders a scalar as
Render(x) == IF IsStr(x) THEN x.v ELSE <<ToString(x.v)>>

\* a str value equal to one of the names of a set of names
NameIn(x, names) == IsStr(x) /\ Len(x.v) = 1 /\ x.v[1] \in names

\* `x in <set>` / `<dict>.get(x)` need x hashable
Hashable(x) == ~IsList(x) /\ ~IsDict(x)

SchemaIssue(severity, message) ==
    ValidationIssue(severity, "dashboard_schema", message, None, None)

check_dashboard_schema(parsed) ==
    IF ~IsDict(parsed)
    THEN <<SchemaIssue("error", <<"Dashboard config must be a dict with a 'views' key.">>)>>
    ELSE
    LET views == Get(parsed, "views", None) IN
    IF views = None
    THEN <<SchemaIssue("error", <<"Dashboard config is missing the required 'views' key.">>)>>
    ELSE IF ~IsList(views)
    THEN <<SchemaIssue("error", <<"'views' must be a list.">>)>>
    ELSE
        (IF Len(views.v) = 0
         THEN <<SchemaIssue("warning", <<"Dashboard has no views.">>)>> ELSE <<>>)
        \o Flatten([n \in DOMAIN views.v |->
            LET i == n - 1
                view == views.v[n]
            IN  IF ~IsDict(view)
                THEN <<SchemaIssue("error", <<"View ", ToString(i), " is not a dict.">>)>>
                ELSE LET cards == Get(view, "cards", None) IN
                     IF cards # None /\ ~IsList(cards)
                     THEN <<SchemaIssue("warning",
                                <<"View ", ToString(i), " 'cards' should be a list.">>)>>
                     ELSE <<>>])

CardIssue(message, suggestion) ==
    ValidationIssue("warning", "card_type", message, None, suggestion)

CardSuggestion ==
    Str(<<"Valid types include: entities, gauge, glance, history-graph, thermostat, media-control">>)

\* the issues of one card, its nested cards apart
OwnCardIssues(card, card_loc) ==
    LET card_type == Get(card, "type", Str(<<>>)) IN
    IF ~Truthy(card_type)
    THEN <<CardIssue(<<card_loc, ": card is missing 'type' field.">>, None)>>
    ELSE
        (IF ~NameIn(card_type, VALID_CARD_TYPES)
         THEN <<CardIssue(<<card_loc, ": unknown card type '">> \o Render(card_type)
                              \o <<"'.">>, CardSuggestion)>>
         ELSE <<>>)
        \o
        (LET required == IF NameIn(card_type, EntityRequired)
                         THEN CARD_REQUIRED_FIELDS[card_type.v[1]] ELSE <<>>
         IN  Flatten([f \in DOMAIN required |->
                IF required[f] \notin DOMAIN card.v
                THEN <<CardIssue(<<card_loc, ": '">> \o Render(card_type)
                           \o <<"' card is missing required field '", required[f], "'.">>,
                           None)>>
                ELSE <<>>]))

\* mutant: the walk descends into the two stack types only
SubCards_StacksOnly(card) ==
    LET card_type == Get(card, "type", Str(<<>>))
        sub_cards == Get(card, "cards", List(<<>>))
    IN  IF NameIn(card_type, {"horizontal-stack", "vertical-stack"}) /\ IsList(sub_cards)
        THEN sub_cards.v ELSE <<>>

\* the nested list the check descends into, if any
SubCards(card) ==
    LET card_type == Get(card, "type", Str(<<>>))
        sub_cards == Get(card, "cards", List(<<>>))
    IN  IF NameIn(card_type, StackTypes) /\ IsList(sub_cards) THEN sub_cards.v ELSE <<>>

RECURSIVE check_cards_recursive(_, _)
check_cards_recursive(cards, location) ==
    Flatten([n \in DOMAIN cards |->
        LET card == cards[n]
            card_loc == location \o " card " \o ToString(n - 1)
        IN  IF ~IsDict(card) THEN <<>>
            ELSE OwnCardIssues(card, card_loc)
                 \o check_cards_recursive(SubCards(card), card_loc)])

\* some card the walk reaches has a truthy, unhashable `type`:
\* `card_type not in VALID_CARD_TYPES` raises TypeError
RECURSIVE HitsUnhashableType(_)
HitsUnhashableType(cards) ==
    \E n \in DOMAIN cards :
        /\ IsDict(cards[n])
        /\ LET card_type == Get(cards[n], "type", Str(<<>>))
           IN  \/ Truthy(card_type) /\ ~Hashable(card_type)
               \/ HitsUnhashableType(SubCards(cards[n]))

\* the card lists check_card_types walks, with their locations
WalkedViews(parsed) ==
    IF ~IsDict(parsed) THEN <<>>
    ELSE LET views == Get(parsed, "views", List(<<>>)) IN
         IF ~IsList(views) THEN <<>>
         ELSE Flatten([n \in DOMAIN views.v |->
                LET view == views.v[n] IN
                IF ~IsDict(view) THEN <<>>
                ELSE LET cards == Get(view, "cards", List(<<>>)) IN
                     IF ~IsList(cards) THEN <<>>
                     ELSE <<[cards |-> cards.v,
                             location |-> "view " \o ToString(n - 1)]>>])

check_card_types(parsed) ==
    LET walked == WalkedViews(parsed) IN
    IF \E n \in DOMAIN walked : HitsUnhashableType(walked[n].cards)
    THEN Raise("TypeError")
    ELSE Return(Flatten([n \in DOMAIN walked |->
                    check_cards_recursive(walked[n].cards, walked[n].location)]))

----------------------------------------------------------------------------
(* validator/pipeline.py: validate and validate_dashboard, one action per  *)
(* stage of the pipeline.                                                  *)

MaxDocItems == 2     \* longest list of actions / of views in a document
MaxCardDepth == 2    \* deepest nesting of stack containers

NoValidation == [valid |-> TRUE, issues |-> <<>>, yaml_parsed |-> None]

\* --- the documents the texts parse to

Seqs(S, n) == UNION {[1..k -> S] : k \in 0..n}

VServices ==
    {Absent, Str(<<"light", ".", "turn_on">>), Str(<<"foo", ".", "turn_on">>),
     Str(<<"turn_on">>), Num(5)}
VEntities ==
    {Absent, KitchenEid, KitchnEid, List(<<KitchenEid, TempEid>>), Str(<<"Kitchen">>)}
VAction(service, entity_id) ==
    Dict(Opt("service", service)
         @@ (IF entity_id = Absent THEN EmptyMap
             ELSE "target" :> Dict("entity_id" :> entity_id)))
VActions == {VAction(s, e) : s \in VServices, e \in VEntities}
VCoreActions ==
    {VAction(Str(<<"light", ".", "turn_on">>), KitchenEid),
     VAction(Str(<<"foo", ".", "turn_on">>), KitchnEid),
     VAction(Str(<<"turn_on">>), Absent)}

AutomationDoc(actions) == Dict(("alias" :> Str(<<"a">>)) @@ ("action" :> List(actions)))

\* references below unrecognized keys, inside the value of a recognized key,
\* and a scalar under `entities`
DeepAction(held) ==
    Dict(("data" :> Dict("target" :> List(<<Dict("data" :> Dict("entity_id" :> KitchnEid))>>)))
         @@ ("target" :> held))

DeepRefDocs ==
    {AutomationDoc(<<DeepAction(held)>>) :
        held \in {Dict("entity_id" :> Dict("entity" :> TempEid)),
                  Dict("entity" :> List(<<Dict("entity_id" :> TempEid)>>))}}

NestedRefDocs ==
    DeepRefDocs
    \cup {AutomationDoc(<<DeepAction(held)>>) :
            held \in {Dict("entities" :> Dict("entity" :> TempEid)),
                      Dict("entities" :> List(<<Dict("data" :> Dict("entity_id" :> TempEid))>>)),
                      Dict("entities" :> List(<<Dict("entity" :> TempEid)>>)),
                      Dict("entities" :> TempEid)}}

AutomationDocs ==
    {AutomationDoc(<<a>>) : a \in VActions}
    \cup NestedRefDocs
    \cup {AutomationDoc(s) : s \in Seqs(VCoreActions, MaxDocItems)}
    \cup {Dict(EmptyMap)}
    \* a file of automations is a top-level list; a bare scalar is YAML too
    \cup {List(<<AutomationDoc(<<a>>)>>) : a \in VCoreActions}
    \cup {Str(<<"hello">>)}

GaugeCard(entity) == Dict(("type" :> Str(<<"gauge">>)) @@ Opt("entity", entity))

LeafCards ==
    {Str(<<"x">>), Dict(EmptyMap), Dict("type" :> None),
     Dict("type" :> Str(<<"custom:foo">>)), Dict("type" :> Num(5)),
     Dict("type" :> List(<<Str(<<"gauge">>)>>)),
     GaugeCard(Absent), GaugeCard(KitchenEid), GaugeCard(KitchnEid),
     Dict(("type" :> Str(<<"entities">>))
          @@ ("entities" :> List(<<KitchenEid, Dict("entity" :> KitchnEid)>>)))}

StackCard(stack_type, cards) == Dict(("type" :> Str(<<stack_type>>)) @@ ("cards" :> cards))

RECURSIVE CardsUpTo(_)
CardsUpTo(depth) ==
    IF depth = 0 THEN LeafCards
    ELSE CardsUpTo(depth - 1)
         \cup {StackCard(st, List(<<c>>)) : st \in StackTypes, c \in CardsUpTo(depth - 1)}
         \cup {StackCard("grid", Str(<<"x">>)), Dict("type" :> Str(<<"grid">>))}

View(cards) == Dict(("title" :> Str(<<"Home">>)) @@ Opt("cards", cards))

CoreViews ==
    {Str(<<"x">>), View(Absent), View(Str(<<"x">>)),
     View(List(<<GaugeCard(Absent)>>)),
     View(List(<<GaugeCard(Absent), GaugeCard(KitchnEid)>>))}

Views ==
    CoreViews
    \cup {View(None), View(List(<<>>)), Num(3)}
    \cup {View(List(<<c>>)) : c \in CardsUpTo(MaxCardDepth)}
    \cup {View(List(<<c, GaugeCard(Absent)>>)) : c \in LeafCards}

DashboardDoc(views) == Dict(("title" :> Str(<<"Home">>)) @@ Opt("views", views))

DashboardDocs ==
    {DashboardDoc(v) : v \in {Absent, None, Str(<<"x">>), Dict(EmptyMap)}}
    \cup {DashboardDoc(List(<<v>>)) : v \in Views}
    \cup {DashboardDoc(List(s)) : s \in Seqs(CoreViews, MaxDocItems)}
    \cup {Dict(EmptyMap), List(<<View(Absent)>>), Str(<<"hello">>)}

NonDocTexts ==
    {EmptyText, BlankText, YamlText(None),
     YamlText(YAMLError("mapping values are not allowed here", Num(2))),
     YamlText(YAMLError("could not determine a constructor", None))}

Texts(fn) ==
    NonDocTexts
    \cup {YamlText(Commented(d)) :
            d \in IF fn = "validate" THEN AutomationDocs ELSE DashboardDocs}

KnownSets == {{}, {KitchenEid}}

\* --- the pipelines

ValidatorIdle ==
    /\ v_fn = "none" /\ yaml_str = EmptyText /\ known_entity_ids = {}
    /\ v_result = NoValidation /\ v_ran = <<>> /\ vpc = "idle" /\ v_exc = "none"

ValidatorInit ==
    /\ v_fn \in {"validate", "validate_dashboard"}
    /\ yaml_str \in Texts(v_fn)
    /\ known_entity_ids \in KnownSets
    /\ v_result = NoValidation /\ v_ran = <<>> /\ vpc = "syntax" /\ v_exc = "none"

\* mutant: any schema issue, of whatever severity, counts as fatal
HasError_AnyIssue(issues) == Len(issues) > 0

HasError(issues) == \E i \in DOMAIN issues : issues[i].severity = "error"

Extended(result, issues) == [result EXCEPT !.issues = @ \o issues]

\* result = check_yaml_syntax(yaml_str); if not result.valid or ...: return result
SyntaxStage ==
    /\ vpc = "syntax"
    /\ LET out == check_yaml_syntax(yaml_str) IN
       IF out.k = "raise"
       THEN /\ vpc' = "raised" /\ v_exc' = out.e
            /\ UNCHANGED <<v_result, v_ran>>
       ELSE /\ v_result' = out.v
            /\ v_ran' = Append(v_ran, "yaml_syntax")
            /\ vpc' = IF ~out.v.valid \/ out.v.yaml_parsed = None THEN "returned"
                      ELSE IF v_fn = "validate" THEN "refs" ELSE "schema"
            /\ UNCHANGED v_exc
    /\ UNCHANGED <<v_fn, yaml_str, known_entity_ids>>
    /\ UNCHANGED <<quickfixReviewVars, reviewerVars, furtherVars>>

\* mutant: a schema error flips valid but the pipeline carries on
SchemaStage_NoAbort ==
    /\ vpc = "schema"
    /\ LET schema_issues == check_dashboard_schema(v_result.yaml_parsed) IN
       /\ v_result' = [[v_result EXCEPT !.issues = @ \o schema_issues] EXCEPT
                          !.valid = IF \E i \in DOMAIN schema_issues :
                                           schema_issues[i].severity = "error"
                                    THEN FALSE ELSE @]
       /\ vpc' = "cards"
    /\ v_ran' = Append(v_ran, "dashboard_schema")
    /\ UNCHANGED <<v_fn, yaml_str, known_entity_ids, v_exc>>
    /\ UNCHANGED <<quickfixReviewVars, reviewerVars, furtherVars>>

\* schema_issues = check_dashboard_schema(...); extend; abort on any error
SchemaStage ==
    /\ vpc = "schema"
    /\ LET schema_issues == check_dashboard_schema(v_result.yaml_parsed) IN
       /\ v_result' = [Extended(v_result, schema_issues) EXCEPT
                          !.valid = IF HasError(schema_issues) THEN FALSE ELSE @]
       /\ vpc' = IF HasError(schema_issues) THEN "returned" ELSE "cards"
    /\ v_ran' = Append(v_ran, "dashboard_schema")
    /\ UNCHANGED <<v_fn, yaml_str, known_entity_ids, v_exc>>
    /\ UNCHANGED <<quickfixReviewVars, reviewerVars, furtherVars>>

\* card_issues = check_card_types(...); extend
CardTypesStage ==
    /\ vpc = "cards"
    /\ LET out == check_card_types(v_result.yaml_parsed) IN
       IF out.k = "raise"
       THEN /\ vpc' = "raised" /\ v_exc' = out.e
            /\ UNCHANGED <<v_result, v_ran>>
       ELSE /\ v_result' = Extended(v_result, out.v)
            /\ v_ran' = Append(v_ran, "card_type")
            /\ vpc' = "refs"
            /\ UNCHANGED v_exc
    /\ UNCHANGED <<v_fn, yaml_str, known_entity_ids>>
    /\ UNCHANGED <<quickfixReviewVars, reviewerVars, furtherVars>>

\* entity_issues = check_entity_refs(...); extend
EntityRefsStage ==
    /\ vpc = "refs"
    /\ v_result' = Extended(v_result,
                            check_entity_refs(v_result.yaml_parsed, known_entity_ids))
    /\ v_ran' = Append(v_ran, "entity_refs")
    /\ vpc' = IF v_fn = "validate" THEN "services" ELSE "returned"
    /\ UNCHANGED <<v_fn, yaml_str, known_entity_ids, v_exc>>
    /\ UNCHANGED <<quickfixReviewVars, reviewerVars, furtherVars>>

\* service_issues = check_service_calls(...); extend; return result
ServiceCallsStage ==
    /\ vpc = "services"
    /\ v_result' = Extended(v_result, check_service_calls(v_result.yaml_parsed))
    /\ v_ran' = Append(v_ran, "service_calls")
    /\ vpc' = "returned"
    /\ UNCHANGED <<v_fn, yaml_str, known_entity_ids, v_exc>>
    /\ UNCHANGED <<quickfixReviewVars, reviewerVars, furtherVars>>

----------------------------------------------------------------------------
(* reviewer/automation_rules.py                                            *)
(*                                                                         *)
(* A check returns its findings and leaves the automation record as its    *)
(* statements leave it: `entity_ids.extend(...)` acts on the list object   *)
(* that target.entity_id holds in the record.                              *)

\* ", ".join(names)
RECURSIVE JoinSep(_, _)
JoinSep(names, sep) ==
    IF Len(names) = 0 THEN <<>>
    ELSE IF Len(names) = 1 THEN <<names[1]>>
    ELSE <<names[1], sep>> \o JoinSep(Tail(names), sep)

\* sorted(...) of a set of sensitive domain names
SensitiveSorted == <<"alarm_control_panel", "camera", "cover", "lock", "siren">>
SortedSensitive(S) == SelectSeq(SensitiveSorted, LAMBDA d : d \in S)

\* automation.get(a) or automation.get(b) or []
FirstTruthy(automation, a, b) ==
    Or(Or(Get(automation, a, None), Get(automation, b, None)), List(<<>>))

DictsOf(x) ==
    IF IsDict(x) THEN <<x>>
    ELSE IF IsList(x) THEN SelectSeq(x.v, LAMBDA t : IsDict(t))
    ELSE <<>>

get_trigger_list(automation) == DictsOf(FirstTruthy(automation, "trigger", "triggers"))

get_condition_list(automation) ==
    LET conditions == FirstTruthy(automation, "condition", "conditions") IN
    IF IsDict(conditions) THEN <<conditions>>
    ELSE IF IsList(conditions) THEN conditions.v
    ELSE <<>>

get_action_list(automation) == DictsOf(FirstTruthy(automation, "action", "actions"))

\* where the elements of _get_action_list sit in the record: 0 for an
\* `action` that is one dict, else the index in the list
ActionsKey(automation) ==
    IF Truthy(Get(automation, "action", None)) THEN "action" ELSE "actions"

ActionRefs(automation) ==
    LET actions == FirstTruthy(automation, "action", "actions") IN
    IF IsDict(actions) THEN <<0>>
    ELSE IF IsList(actions)
         THEN SelectSeq([i \in DOMAIN actions.v |-> i], LAMBDA i : IsDict(actions.v[i]))
    ELSE <<>>

ActionAt(automation, ref) ==
    LET actions == FirstTruthy(automation, "action", "actions") IN
    IF ref = 0 THEN actions ELSE actions.v[ref]

\* the record once the list object at action.target.entity_id holds new_ids
WithTargetIds(automation, ref, new_ids) ==
    LET action == ActionAt(automation, ref)
        target == [action.v["target"] EXCEPT !.v = [@ EXCEPT !["entity_id"] =
                        [@ EXCEPT !.v = new_ids]]]
        action2 == [action EXCEPT !.v = [@ EXCEPT !["target"] = target]]
        key == ActionsKey(automation)
    IN  [automation EXCEPT !.v = [@ EXCEPT ![key] =
            IF ref = 0 THEN action2 ELSE [@ EXCEPT !.v = [@ EXCEPT ![ref] = action2]]]]

\* the text of a str value
Text(x) == Join(x.v)

auto_id(automation) == Text(Get(automation, "id", Str(<<"unknown">>)))
auto_alias(automation) == Text(Get(automation, "alias", Str(<<"Unnamed automation">>)))

RuleFinding(automation, severity, category, title, description) ==
    ReviewFinding([severity |-> severity, category |-> category,
                   automation_id |-> auto_id(automation),
                   automation_alias |-> auto_alias(automation),
                   title |-> title, description |-> description])

\* str(minutes).startswith("/")
StartsWithSlash(x) == IsStr(x) /\ Len(Text(x)) > 0 /\ SubSeq(Text(x), 1, 1) = "/"

check_trigger_efficiency(automation) ==
    LET triggers == get_trigger_list(automation) IN
    Flatten([n \in DOMAIN triggers |->
        LET trigger == triggers[n]
            platform == Get(trigger, "platform", Str(<<>>))
            seconds == Get(trigger, "seconds", None)
            minutes == Get(trigger, "minutes", None)
        IN  IF platform = Str(<<"time_pattern">>)
               /\ (seconds # None \/ (minutes # None /\ StartsWithSlash(minutes)))
            THEN <<RuleFinding(automation, "warning", "trigger_efficiency",
                       <<"Frequent time_pattern trigger">>,
                       <<"This automation uses a time_pattern trigger that fires frequently",
                         ".", " Consider using a state-based trigger or increasing the interval",
                         ".">>)>>
            ELSE <<>>])

check_missing_guards(automation) ==
    IF Len(get_trigger_list(automation)) > 0 /\ Len(get_condition_list(automation)) = 0
    THEN <<RuleFinding(automation, "suggestion", "missing_guards",
               <<"No conditions defined">>,
               <<"This automation has triggers but no conditions", ".",
                 " Consider adding conditions to prevent unintended activations", ".">>)>>
    ELSE <<>>

\* `"." in x`: a str is searched, a list or dict has no "." member here,
\* anything else is no container
DotIn(x) ==
    IF IsStr(x) THEN (IF \E j \in 1..Len(x.v) : x.v[j] = "." THEN "true" ELSE "false")
    ELSE IF IsList(x) \/ IsDict(x) THEN "false"
    ELSE "TypeError"

\* x.split(".")[0]
DomainOf(x) == Join(SplitFirst(x.v))

\* the items `entity_ids.extend(x)` / `a + x` takes from x
IsIterable(x) == IsStr(x) \/ IsList(x)
AsIdList(x) == IF IsStr(x) THEN <<x>> ELSE x.v

SecurityFinding_AlwaysCritical(automation, conditions, sensitive_found) ==
    LET names == JoinSep(SortedSensitive(sensitive_found), ", ") IN
    RuleFinding(automation, "critical", "security",
        <<"Sensitive domain without adequate guards: ">> \o names,
        <<"This automation controls sensitive domain(s): ">> \o names \o <<".", " ">>)

SecurityFinding(automation, conditions, sensitive_found) ==
    LET names == JoinSep(SortedSensitive(sensitive_found), ", ") IN
    RuleFinding(automation,
        IF Len(conditions) = 0 THEN "critical" ELSE "warning", "security",
        <<"Sensitive domain without adequate guards: ">> \o names,
        <<"This automation controls sensitive domain(s): ">> \o names \o <<".", " ">>
        \o (IF Len(conditions) = 0
            THEN <<"It has NO conditions, meaning the action runs unconditionally", ".">>
            ELSE <<"Verify that conditions are sufficient to prevent unauthorized activation",
                   ".">>))

\* one pass of the loop body of check_security_concerns (lines 121-166):
\* the exception it raises, or the findings it appends, and the record as
\* the pass leaves it
SecurityPass(automation, ref, conditions) ==
    LET action == ActionAt(automation, ref)
        service == Get(action, "service", Str(<<>>))
        Fail(e, rec) == [k |-> "raise", e |-> e, automation |-> rec]
    IN
    IF DotIn(service) = "TypeError" THEN Fail("TypeError", automation)
    ELSE
    LET domain == IF DotIn(service) = "true" THEN DomainOf(service) ELSE ""
        target == Or(Get(action, "target", Dict(EmptyMap)), Dict(EmptyMap))
    IN
    IF ~IsDict(target) THEN Fail("AttributeError", automation)
    ELSE
    LET in_record == "target" \in DOMAIN action.v /\ "entity_id" \in DOMAIN target.v
        raw_ids == Get(target, "entity_id", List(<<>>))
        data == Or(Get(action, "data", Dict(EmptyMap)), Dict(EmptyMap))
    IN
    IF ~IsDict(data) THEN Fail("AttributeError", automation)
    ELSE
    LET raw_data_ids == Get(data, "entity_id", List(<<>>)) IN
    IF ~IsStr(raw_ids) /\ ~IsList(raw_ids) THEN Fail("AttributeError", automation)
    ELSE IF ~IsIterable(raw_data_ids) THEN Fail("TypeError", automation)
    ELSE
    LET entity_ids == AsIdList(raw_ids) \o AsIdList(raw_data_ids)
        \* a list found in the record is the object that was extended
        after == IF in_record /\ IsList(raw_ids)
                 THEN WithTargetIds(automation, ref, entity_ids) ELSE automation
    IN
    IF \E j \in DOMAIN entity_ids : DotIn(entity_ids[j]) = "TypeError"
    THEN Fail("TypeError", after)
    ELSE
    LET domains_involved ==
            (IF domain # "" THEN {domain} ELSE {})
            \cup {DomainOf(entity_ids[j]) :
                    j \in {i \in DOMAIN entity_ids : DotIn(entity_ids[i]) = "true"}}
        sensitive_found == domains_involved \cap SENSITIVE_DOMAINS
    IN  [k |-> "return", automation |-> after,
         v |-> IF sensitive_found # {}
               THEN <<SecurityFinding(automation, conditions, sensitive_found)>>
               ELSE <<>>]

RECURSIVE SecurityLoop(_, _, _, _)
SecurityLoop(automation, refs, conditions, acc) ==
    IF Len(refs) = 0 THEN [k |-> "return", v |-> acc, automation |-> automation]
    ELSE Only({IF pass.k = "raise" THEN pass
               ELSE SecurityLoop(pass.automation, Tail(refs), conditions, acc \o pass.v) :
               pass \in {SecurityPass(automation, refs[1], conditions)}})

check_security_concerns(automation) ==
    SecurityLoop(automation, ActionRefs(automation), get_condition_list(automation), <<>>)

TurnOn == Str(<<"homeassistant", ".", "turn_on">>)
TurnOff == Str(<<"homeassistant", ".", "turn_off">>)

\* one pass of the loop body of check_deprecated_patterns (lines 174-207);
\* the description is spelled without its backquotes
DeprecatedPass(automation, action) ==
    LET service == Get(action, "service", Str(<<>>)) IN
    IF service \notin {TurnOn, TurnOff} THEN Return(<<>>)
    ELSE
    LET verb == IF service = TurnOn THEN "turn_on" ELSE "turn_off"
        target == Or(Get(action, "target", Dict(EmptyMap)), Dict(EmptyMap))
    IN
    IF ~IsDict(target) THEN Raise("AttributeError")
    ELSE
    LET raw_ids == Get(target, "entity_id", List(<<>>))
        data == Or(Get(action, "data", Dict(EmptyMap)), Dict(EmptyMap))
    IN
    IF ~IsDict(data) THEN Raise("AttributeError")
    ELSE
    LET raw_data_ids == Get(data, "entity_id", List(<<>>)) IN
    IF ~IsIterable(raw_ids) \/ ~IsIterable(raw_data_ids) THEN Raise("TypeError")
    ELSE
    LET all_ids == AsIdList(raw_ids) \o AsIdList(raw_data_ids) IN
    IF Len(all_ids) > 0 /\ DotIn(all_ids[1]) = "TypeError" THEN Raise("TypeError")
    ELSE
    LET domain == IF Len(all_ids) > 0 /\ DotIn(all_ids[1]) = "true"
                  THEN DomainOf(all_ids[1]) ELSE ""
        suggestion == IF domain # ""
                      THEN <<" Use ", domain, ".", verb, " instead", ".">> ELSE <<>>
    IN  Return(<<RuleFinding(automation, "suggestion", "deprecated_patterns",
                    <<"Generic ">> \o service.v \o <<" call">>,
                    service.v \o <<" is a generic call", ".",
                      " Domain-specific services are preferred for clarity and reliability",
                      ".">> \o suggestion)>>)

RECURSIVE DeprecatedLoop(_, _, _)
DeprecatedLoop(automation, actions, acc) ==
    IF Len(actions) = 0 THEN Return(acc)
    ELSE Only({IF pass.k = "raise" THEN pass
               ELSE DeprecatedLoop(automation, Tail(actions), acc \o pass.v) :
               pass \in {DeprecatedPass(automation, actions[1])}})

check_deprecated_patterns(automation) ==
    DeprecatedLoop(automation, get_action_list(automation), <<>>)

\* the four checks in order; the later checks see the record as the
\* earlier ones left it
run_all_rules(automation) ==
    LET first == check_trigger_efficiency(automation) \o check_missing_guards(automation)
        Rest(security) ==
            Only({IF deprecated.k = "raise"
                  THEN [k |-> "raise", e |-> deprecated.e,
                        automation |-> security.automation]
                  ELSE [k |-> "return", automation |-> security.automation,
                        v |-> first \o security.v \o deprecated.v] :
                  deprecated \in {check_deprecated_patterns(security.automation)}})
    IN  Only({IF security.k = "raise" THEN security ELSE Rest(security) :
              security \in {check_security_concerns(automation)}})

\* any one of the checks, or all of them
RunRule(check, automation) ==
    LET Outcome(out, after) ==
            [k |-> out.k, automation |-> after,
             v |-> IF out.k = "return" THEN out.v ELSE <<>>,
             e |-> IF out.k = "raise" THEN out.e ELSE "none"]
        Pure(result) == Only({Outcome(out, automation) : out \in {result}})
        Full(result) == Only({Outcome(out, out.automation) : out \in {result}})
    IN  CASE check = "check_trigger_efficiency" ->
                Pure(Return(check_trigger_efficiency(automation)))
          [] check = "check_missing_guards" ->
                Pure(Return(check_missing_guards(automation)))
          [] check = "check_security_concerns" -> Full(check_security_concerns(automation))
          [] check = "check_deprecated_patterns" ->
                Pure(check_deprecated_patterns(automation))
          [] check = "run_all_rules" -> Full(run_all_rules(automation))

RuleChecks ==
    {"check_trigger_efficiency", "check_missing_guards", "check_security_concerns",
     "check_deprecated_patterns", "run_all_rules"}

(* The rule checks as a caller uses them: the same automation record is     *)
(* handed to one check after another.                                       *)

MaxRuns == 2
MaxRuleActions == 2

LockFront == Str(<<"lock", ".", "front">>)
LockBack == Str(<<"lock", ".", "back">>)

RuleTriggers ==
    {Absent,
     List(<<Dict("platform" :> Str(<<"state">>))>>),
     List(<<Dict(("platform" :> Str(<<"time_pattern">>)) @@ ("seconds" :> Str(<<"/5">>)))>>),
     Dict(("platform" :> Str(<<"time_pattern">>)) @@ ("minutes" :> Str(<<"/", "5">>)))}

RuleConditions == {Absent, List(<<Dict("condition" :> Str(<<"state">>))>>)}

RuleServices == {Str(<<"lock", ".", "lock">>), TurnOn, Str(<<"light", ".", "turn_on">>)}

RuleTargets ==
    {Absent, Str(<<"{{ target }}">>),
     Dict("entity_id" :> LockFront),
     Dict("entity_id" :> List(<<LockFront>>)),
     Dict("entity_id" :> List(<<>>))}

RuleDatas ==
    {Absent, Dict("entity_id" :> LockBack), Dict("entity_id" :> List(<<LightEid>>)),
     Dict("brightness" :> Num(1))}

RuleAction(service, target, data) ==
    Dict(("service" :> service) @@ Opt("target", target) @@ Opt("data", data))

RuleActions ==
    {RuleAction(s, t, d) : s \in RuleServices, t \in RuleTargets, d \in RuleDatas}

LockCall(data) ==
    RuleAction(Str(<<"lock", ".", "lock">>), Dict("entity_id" :> List(<<LockFront>>)), data)

\* lists of lock calls on a list target, with or without data.entity_id
RuleActionLists ==
    {List(s) : s \in Seqs({LockCall(Absent), LockCall(Dict("entity_id" :> LockBack))},
                           MaxRuleActions)}

\* harmless calls around one call that is sensitive by its service, by its
\* target or by its data.entity_id alone
MixedActionLists ==
    {List(<<RuleAction(Str(<<"light", ".", "turn_on">>), Absent,
                       Dict("entity_id" :> List(<<LightEid>>))),
            a,
            RuleAction(TurnOn, Dict("entity_id" :> LightEid), Absent)>>) :
        a \in {LockCall(Absent),
               RuleAction(TurnOn, Dict("entity_id" :> CameraEid), Absent),
               RuleAction(TurnOn, Absent,
                          Dict("entity_id" :> Str(<<"cover", ".", "garage">>))),
               RuleAction(Str(<<"siren", ".", "turn_on">>), Absent, Absent),
               RuleAction(Str(<<"alarm_control_panel", ".", "alarm_disarm">>),
                          Absent, Absent)}}

RuleAutomation(trigger, condition, action) ==
    Dict(("id" :> Str(<<"a1">>)) @@ Opt("trigger", trigger)
         @@ Opt("condition", condition) @@ ("action" :> action))

\* every trigger and condition shape over the lock lists; every action
\* shape as the one action, given as a dict or in a list
RuleAutomations ==
    {RuleAutomation(t, c, a) : t \in RuleTriggers, c \in RuleConditions,
                               a \in RuleActionLists}
    \cup {RuleAutomation(Absent, c, a) : c \in RuleConditions, a \in RuleActions}
    \cup {RuleAutomation(Absent, Absent, List(<<a>>)) : a \in RuleActions}
    \cup {Dict("alias" :> Str(<<"no actions">>))}
    \cup {RuleAutomation(Absent, c, a) : c \in RuleConditions, a \in MixedActionLists}

RulesIdle ==
    /\ r_given = None /\ r_automation = None /\ r_runs = <<>>

RulesInit ==
    /\ r_given \in RuleAutomations
    /\ r_automation = r_given
    /\ r_runs = <<>>

\* a call of a check on the record, which stays with the caller
CanCall == r_automation # None /\ Len(r_runs) < MaxRuns

Called(check) ==
    \E out \in {RunRule(check, r_automation)} :
       /\ r_automation' = out.automation
       /\ r_runs' = Append(r_runs, [check |-> check, given |-> r_automation,
                                    k |-> out.k, v |-> out.v, e |-> out.e])

TriggerEfficiencyCall ==
    /\ CanCall
    /\ Called("check_trigger_efficiency")
    /\ UNCHANGED <<r_given, quickfixReviewVars, validatorVars, dashRulesVars, engineVars,
                   furtherVars>>

MissingGuardsCall ==
    /\ CanCall
    /\ Called("check_missing_guards")
    /\ UNCHANGED <<r_given, quickfixReviewVars, validatorVars, dashRulesVars, engineVars,
                   furtherVars>>

SecurityConcernsCall ==
    /\ CanCall
    /\ Called("check_security_concerns")
    /\ UNCHANGED <<r_given, quickfixReviewVars, validatorVars, dashRulesVars, engineVars,
                   furtherVars>>

DeprecatedPatternsCall ==
    /\ CanCall
    /\ Called("check_deprecated_patterns")
    /\ UNCHANGED <<r_given, quickfixReviewVars, validatorVars, dashRulesVars, engineVars,
                   furtherVars>>

RunAllRulesCall ==
    /\ CanCall
    /\ Called("run_all_rules")
    /\ UNCHANGED <<r_given, quickfixReviewVars, validatorVars, dashRulesVars, engineVars,
                   furtherVars>>

----------------------------------------------------------------------------
(* reviewer/dashboard_rules.py                                             *)
(*                                                                         *)
(* The checks are modelled for dashboards as the review receives them:     *)
(* `views` a list of dicts, `cards` lists of dicts, `type`, `title` and    *)
(* entity ids strings where present.  sorted(...) is the order of the      *)
(* names in EntityOrder, DomainOrder and CardTypeOrder.                    *)

RECOMMENDED_CARD_TYPES ==
    ("sensor" :> "gauge") @@ ("climate" :> "thermostat")
    @@ ("media_player" :> "media-control") @@ ("weather" :> "weather-forecast")
    @@ ("camera" :> "picture-entity")

\* line 27: the card types _collect_card_entities descends into
CollectorStackTypes == {"horizontal-stack", "vertical-stack"}

SetOf(s) == {s[i] : i \in DOMAIN s}

\* the (entity, card_type) pairs of one card that is no stack (lines 31-41)
OwnPairs(card, card_type) ==
    LET entity == Get(card, "entity", None)
        entities == Get(card, "entities", List(<<>>)).v
    IN  (IF Truthy(entity) THEN << <<entity, card_type>> >> ELSE <<>>)
        \o Flatten([m \in DOMAIN entities |->
              LET ent == entities[m] IN
              IF IsStr(ent) THEN << <<ent, card_type>> >>
              ELSE IF IsDict(ent) /\ "entity" \in DOMAIN ent.v
                   THEN << <<ent.v["entity"], card_type>> >>
              ELSE <<>>])

RECURSIVE collect_card_entities(_)
collect_card_entities(cards) ==
    Flatten([n \in DOMAIN cards |->
        LET card == cards[n]
            card_type == Get(card, "type", Str(<<>>))
        IN  IF NameIn(card_type, CollectorStackTypes)
            THEN collect_card_entities(Get(card, "cards", List(<<>>)).v)
            ELSE OwnPairs(card, card_type)])

DashboardViews(dashboard) == Get(dashboard, "views", List(<<>>)).v

collect_dashboard_entities(dashboard) ==
    LET views == DashboardViews(dashboard) IN
    Flatten([n \in DOMAIN views |->
        collect_card_entities(Get(views[n], "cards", List(<<>>)).v)])

\* eid.split(".")[0] if "." in eid else ""
DomainOrEmpty(eid) == IF DotIn(eid) = "true" THEN DomainOf(eid) ELSE ""

DashFinding(severity, category, title, description) ==
    ReviewFinding([severity |-> severity, category |-> category,
                   title |-> title, description |-> description])

DISPLAYABLE_DOMAINS ==
    {"light", "switch", "sensor", "binary_sensor", "climate", "cover", "media_player",
     "fan", "lock", "camera", "weather", "vacuum", "humidifier", "water_heater"}

MAX_EXAMPLES == 3

NoDotEid == Str(<<"nodot">>)

EntityOrder == <<CameraEid, KitchenEid, LockFront, NoDotEid, TempEid>>
DomainOrder == <<"camera", "light", "lock", "sensor">>
CardTypeOrder ==
    <<"", "button", "entities", "gauge", "grid", "horizontal-stack", "vertical-stack">>

\* a Python set
PySet(S) == [t |-> "set", v |-> S]

\* the entity ids check_unused_entities reports (lines 67-71)
UnusedIds(pairs, known_ids) ==
    LET dashboard_entities == {pairs[i][1] : i \in DOMAIN pairs} IN
    SelectSeq(EntityOrder, LAMBDA eid :
        /\ eid \in known_ids.v
        /\ DomainOrEmpty(eid) \in DISPLAYABLE_DOMAINS
        /\ eid \notin dashboard_entities)

\* lines 73-104; the dash of the summary lines is spelled "-"
UnusedFinding(unused) ==
    LET domains == SelectSeq(DomainOrder, LAMBDA d :
                       \E i \in DOMAIN unused : DomainOf(unused[i]) = d)
        Line(d) ==
            LET eids == SelectSeq(unused, LAMBDA eid : DomainOf(eid) = d)
                shown == SubSeq(eids, 1, IF Len(eids) < MAX_EXAMPLES THEN Len(eids)
                                         ELSE MAX_EXAMPLES)
            IN  <<"\n", "  ", d, ": ", ToString(Len(eids)), " - ">>
                \o JoinSep([i \in DOMAIN shown |-> Text(shown[i])], ", ")
                \o (IF Len(eids) > MAX_EXAMPLES
                    THEN <<" (+", ToString(Len(eids) - MAX_EXAMPLES), " more)">> ELSE <<>>)
    IN  DashFinding("suggestion", "unused_entities",
            <<ToString(Len(unused)), " entities not on any dashboard card">>,
            <<ToString(Len(unused)), " entities across ", ToString(Len(domains)),
              " domain(s) are not on any dashboard card:\n">>
            \o Flatten([i \in DOMAIN domains |-> Line(domains[i])])
            \o <<"\n", "\nConsider adding views or cards for the most important entities, ",
                 "or filtering out entities you don't need on the dashboard", ".">>)

UnusedOf(pairs, known_ids) ==
    LET unused == UnusedIds(pairs, known_ids) IN
    IF Len(unused) = 0 THEN <<>> ELSE <<UnusedFinding(unused)>>

check_unused_entities(dashboard, known_ids) ==
    UnusedOf(collect_dashboard_entities(dashboard), known_ids)

InconsistentOf(pairs) ==
    LET TypesOf(d) == {Text(pairs[i][2]) : i \in {j \in DOMAIN pairs :
                                                   DomainOrEmpty(pairs[j][1]) = d}}
        domains == SelectSeq(DomainOrder, LAMBDA d : TypesOf(d) # {})
    IN  Flatten([n \in DOMAIN domains |->
            LET domain == domains[n]
                card_types == SelectSeq(CardTypeOrder, LAMBDA c : c \in TypesOf(domain))
            IN  IF Cardinality(TypesOf(domain)) > 1
                THEN <<DashFinding("suggestion", "inconsistent_cards",
                          <<"Inconsistent card types for '", domain, "' domain">>,
                          <<"Entities in the '", domain, "' domain use multiple card types: ">>
                          \o JoinSep(card_types, ", ")
                          \o <<".", " Consider using a consistent card type for visual cohesion",
                               ".">>)>>
                ELSE <<>>])

check_inconsistent_cards(dashboard) == InconsistentOf(collect_dashboard_entities(dashboard))

\* str.lower() on the letters of the titles and names used here
UpperLetters == "ABCDEFGHIJKLMNOPQRSTUVWXYZ"
LowerLetters == "abcdefghijklmnopqrstuvwxyz"

LowerChar(c) ==
    IF \E i \in 1..Len(UpperLetters) : SubSeq(UpperLetters, i, i) = c
    THEN LET i == CHOOSE i \in 1..Len(UpperLetters) : SubSeq(UpperLetters, i, i) = c
         IN  SubSeq(LowerLetters, i, i)
    ELSE c

Lower(text) == Join([i \in 1..Len(text) |-> LowerChar(SubSeq(text, i, i))])

\* mutant: the view titles are kept as written
ViewTitles_AsWritten(dashboard) ==
    LET views == DashboardViews(dashboard) IN
    {Text(Get(views[n], "title", Str(<<>>))) : n \in DOMAIN views} \ {""}

\* lines 143-147
ViewTitles(dashboard) ==
    LET views == DashboardViews(dashboard) IN
    {Lower(Text(Get(views[n], "title", Str(<<>>)))) : n \in DOMAIN views} \ {""}

check_missing_area_coverage(dashboard, areas) ==
    LET view_titles == ViewTitles(dashboard) IN
    Flatten([n \in DOMAIN areas |->
        LET area_name == Text(Get(areas[n], "name", Str(<<>>))) IN
        IF area_name = "" THEN <<>>
        ELSE IF Lower(area_name) \notin view_titles
        THEN <<DashFinding("suggestion", "missing_area_coverage",
                  <<"No dashboard view for area: ", area_name>>,
                  <<"The area '", area_name, "' exists in Home Assistant but has no matching ",
                    "dashboard view", ".", " Consider adding a view for this area to provide ",
                    "full coverage", ".">>)>>
        ELSE <<>>])

MaxListed == 5

RecommendationsOf(pairs) ==
    LET Recommended(p) ==
            IF DomainOrEmpty(p[1]) \in DOMAIN RECOMMENDED_CARD_TYPES
            THEN RECOMMENDED_CARD_TYPES[DomainOrEmpty(p[1])] ELSE ""
        Suggests(p) ==
            Recommended(p) # "" /\ Text(p[2]) # Recommended(p) /\ Text(p[2]) # ""
        KeyOf(p) == <<DomainOrEmpty(p[1]), Text(p[2]), Recommended(p)>>
        suggesting == SelectSeq(pairs, Suggests)
        \* dict keys in insertion order
        first == SelectSeq([i \in DOMAIN suggesting |-> i], LAMBDA i :
                     \A j \in 1..(i - 1) : KeyOf(suggesting[j]) # KeyOf(suggesting[i]))
    IN  [n \in DOMAIN first |->
            LET key == KeyOf(suggesting[first[n]])
                entities == SelectSeq(suggesting, LAMBDA p : KeyOf(p) = key)
                listed == SubSeq(entities, 1, IF Len(entities) < MaxListed THEN Len(entities)
                                              ELSE MaxListed)
            IN  DashFinding("info", "card_type_recommendation",
                    <<"Consider '", key[3], "' card for ", key[1], " entities">>,
                    <<ToString(Len(entities)), " ", key[1], " entity/entities use '", key[2],
                      "' cards", ".", " The '", key[3], "' card type is designed for ", key[1],
                      " entities and may provide a better experience", ".", " Entities: ">>
                    \o JoinSep([i \in DOMAIN listed |-> Text(listed[i][1])], ", ")
                    \o (IF Len(entities) > MaxListed
                        THEN <<" (+", ToString(Len(entities) - MaxListed), " more)">>
                        ELSE <<>>))]

check_card_type_recommendations(dashboard) ==
    RecommendationsOf(collect_dashboard_entities(dashboard))

MaxColumnCards == 8

check_layout_optimization(dashboard) ==
    LET views == DashboardViews(dashboard) IN
    Flatten([n \in DOMAIN views |->
        LET title == Text(Get(views[n], "title", Str(<<"Unnamed">>)))
            cards == Get(views[n], "cards", List(<<>>)).v
            has_stacks == \E i \in DOMAIN cards :
                              NameIn(Get(cards[i], "type", None), CollectorStackTypes)
        IN  IF Len(cards) > MaxColumnCards /\ ~has_stacks
            THEN <<DashFinding("suggestion", "layout_optimization",
                      <<"Long single-column layout in '", title, "'">>,
                      <<"The '", title, "' view has ", ToString(Len(cards)),
                        " top-level cards with no stack grouping", ".",
                        " Consider using horizontal-stack or vertical-stack cards to ",
                        "organize related cards and reduce scrolling", ".">>)>>
            ELSE <<>>])

run_all_dashboard_rules(dashboard, known_ids, areas) ==
    (IF known_ids # None THEN check_unused_entities(dashboard, known_ids) ELSE <<>>)
    \o check_inconsistent_cards(dashboard)
    \o (IF areas # None THEN check_missing_area_coverage(dashboard, areas.v) ELSE <<>>)
    \o check_card_type_recommendations(dashboard)
    \o check_layout_optimization(dashboard)

(* The dashboard checks as the review calls them. *)

MaxRuleCardDepth == 2
MaxRuleViews == 2

TypedCard(card_type, entity) == Dict(("type" :> Str(<<card_type>>)) @@ ("entity" :> entity))

EntitiesCard(entities) ==
    Dict(("type" :> Str(<<"entities">>)) @@ ("entities" :> List(entities)))

RuleLeafCards ==
    {TypedCard("gauge", TempEid), TypedCard("button", TempEid),
     TypedCard("button", KitchenEid), Dict("entity" :> LockFront),
     Dict("type" :> Str(<<"gauge">>)),
     EntitiesCard(<<KitchenEid, Dict("entity" :> CameraEid), Dict("name" :> Str(<<"x">>))>>)}

RECURSIVE RuleCardsUpTo(_)
RuleCardsUpTo(depth) ==
    IF depth = 0 THEN RuleLeafCards
    ELSE RuleLeafCards
         \cup {StackCard(st, List(<<c>>)) :
                 st \in StackTypes,
                 c \in RuleCardsUpTo(depth - 1)
                       \ (RuleLeafCards \ {TypedCard("gauge", TempEid),
                                           TypedCard("button", KitchenEid)})}

RuleTitles ==
    {Absent, Str(<<"Kitchen">>), Str(<<"Kitchen Lights">>), Str(<<"KITCHEN">>), Str(<<>>)}

RuleView(title, cards) == Dict(Opt("title", title) @@ Opt("cards", cards))

\* more than MaxColumnCards cards in one column, with a stack among them or not
LongColumn(last) ==
    List([i \in 1..(MaxColumnCards + 1) |->
            IF i = MaxColumnCards + 1 THEN last ELSE TypedCard("gauge", TempEid)])

RuleViews ==
    {RuleView(t, List(<<c>>)) : t \in RuleTitles, c \in RuleCardsUpTo(MaxRuleCardDepth)}
    \cup {RuleView(Str(<<"Home">>), Absent),
          RuleView(Str(<<"Home">>), LongColumn(TypedCard("gauge", TempEid))),
          RuleView(Str(<<"Home">>),
                   LongColumn(StackCard("vertical-stack", List(<<>>)))),
          RuleView(Absent, LongColumn(StackCard("grid", List(<<>>))))}

CoreRuleViews ==
    {RuleView(Str(<<"Kitchen Lights">>), List(<<TypedCard("button", TempEid)>>)),
     RuleView(Str(<<"Hall">>), List(<<TypedCard("gauge", TempEid),
                                       TypedCard("button", TempEid),
                                       TypedCard("button", CameraEid)>>))}

RuleDashboards ==
    {Dict(EmptyMap)}
    \cup {Dict("views" :> List(<<v>>)) : v \in RuleViews}
    \cup {Dict("views" :> List(s)) : s \in Seqs(CoreRuleViews, MaxRuleViews)}

RuleKnownSets ==
    {None, PySet({}), PySet({TempEid, KitchenEid, LockFront, NoDotEid}), PySet({CameraEid})}

Area(name) == Dict("name" :> Str(<<name>>))

RuleAreas ==
    {None, List(<<>>), List(<<Area("Kitchen")>>),
     List(<<Area("Hall"), Dict(EmptyMap), Area("kitchen lights")>>)}

DashRulesIdle ==
    /\ d_dashboard = None /\ d_known = None /\ d_areas = None
    /\ d_call = "none" /\ d_pairs = <<>> /\ d_findings = <<>>

DashRulesInit ==
    /\ d_dashboard \in RuleDashboards
    /\ d_known \in RuleKnownSets
    /\ d_areas \in RuleAreas
    /\ d_call = "none" /\ d_pairs = <<>> /\ d_findings = <<>>

DashCanCall == d_dashboard # None /\ d_call = "none"

\* a check that starts from the collector's pairs
CollectingCall(check, pairs, result) ==
    /\ d_call' = check
    /\ d_pairs' = pairs
    /\ d_findings' = result
    /\ UNCHANGED <<d_dashboard, d_known, d_areas>>
    /\ UNCHANGED <<quickfixReviewVars, validatorVars, rulesVars, engineVars, furtherVars>>

UnusedEntitiesCall ==
    /\ DashCanCall /\ d_known # None
    /\ \E pairs \in {collect_dashboard_entities(d_dashboard)} :
          CollectingCall("check_unused_entities", pairs, UnusedOf(pairs, d_known))

InconsistentCardsCall ==
    /\ DashCanCall
    /\ \E pairs \in {collect_dashboard_entities(d_dashboard)} :
          CollectingCall("check_inconsistent_cards", pairs, InconsistentOf(pairs))

MissingAreaCoverageCall ==
    /\ DashCanCall /\ d_areas # None
    /\ CollectingCall("check_missing_area_coverage", <<>>,
                      check_missing_area_coverage(d_dashboard, d_areas.v))

CardTypeRecommendationsCall ==
    /\ DashCanCall
    /\ \E pairs \in {collect_dashboard_entities(d_dashboard)} :
          CollectingCall("check_card_type_recommendations", pairs, RecommendationsOf(pairs))

LayoutOptimizationCall ==
    /\ DashCanCall
    /\ CollectingCall("check_layout_optimization", <<>>,
                      check_layout_optimization(d_dashboard))

RunAllDashboardRulesCall ==
    /\ DashCanCall
    /\ \E pairs \in {collect_dashboard_entities(d_dashboard)} :
          CollectingCall("run_all_dashboard_rules", pairs,
                         run_all_dashboard_rules(d_dashboard, d_known, d_areas))

----------------------------------------------------------------------------
(* ReviewEngine._parse_llm_findings (reviewer/engine.py)                   *)
(*                                                                         *)
(* The response content is known by what the fence pattern and json.loads  *)
(* make of it: whether a fenced block is found, and the value or the       *)
(* JSONDecodeError that decoding its text gives.                           *)

NoFenceText == [fence |-> FALSE]
FencedText(loads) == [fence |-> TRUE, loads |-> loads]
Undecodable == FencedText(Raise("JSONDecodeError"))
JsonText(value) == FencedText(Return(value))

\* FindingSeverity(x) / FindingCategory(x): ValueError unless x is a value of the enum
IsValueOf(x, enum) == IsStr(x) /\ Text(x) \in enum

\* a `str` field / a `str | None` field of the pydantic model
IsStrField(x) == IsStr(x)
IsOptStrField(x) == IsStr(x) \/ x = None

\* lines 274-285: the ReviewFinding of one item, or what its construction raises
ItemFinding(item) ==
    LET severity == Get(item, "severity", Str(<<"info">>))
        category == Get(item, "category", Str(<<"error_resilience">>))
        automation_id == Get(item, "automation_id", Str(<<>>))
        automation_alias == Get(item, "automation_alias", Str(<<>>))
        title == Get(item, "title", Str(<<"Untitled finding">>))
        description == Get(item, "description", Str(<<>>))
        current_yaml == Get(item, "current_yaml", None)
        suggested_yaml == Get(item, "suggested_yaml", None)
    IN  IF ~IsValueOf(severity, FindingSeverity) THEN Raise("ValueError")
        ELSE IF ~IsValueOf(category, FindingCategory) THEN Raise("ValueError")
        ELSE IF \/ ~IsStrField(automation_id) \/ ~IsStrField(automation_alias)
                \/ ~IsStrField(title) \/ ~IsStrField(description)
                \/ ~IsOptStrField(current_yaml) \/ ~IsOptStrField(suggested_yaml)
        THEN Raise("ValidationError")
        ELSE Return(ReviewFinding(
                [severity |-> Text(severity), category |-> Text(category),
                 automation_id |-> Text(automation_id),
                 automation_alias |-> Text(automation_alias),
                 title |-> title.v, description |-> description.v,
                 current_yaml |-> current_yaml, suggested_yaml |-> suggested_yaml]))

\* `except (ValueError, KeyError)`: pydantic's ValidationError is a ValueError
SkippedErrors == {"ValueError", "KeyError", "ValidationError"}

\* mutant: one invalid item discards the items after it
RECURSIVE ItemFindings_StopAtInvalid(_)
ItemFindings_StopAtInvalid(raw) ==
    IF Len(raw) = 0 THEN <<>>
    ELSE IF ~IsDict(raw[1]) THEN ItemFindings_StopAtInvalid(Tail(raw))
    ELSE IF ItemFinding(raw[1]).k = "raise" THEN <<>>
    ELSE <<ItemFinding(raw[1]).v>> \o ItemFindings_StopAtInvalid(Tail(raw))

\* lines 269-288: `for item in raw`
ItemFindings(raw) ==
    Flatten([n \in DOMAIN raw |->
        IF ~IsDict(raw[n]) THEN <<>>
        ELSE Only({IF out.k = "raise" /\ out.e \in SkippedErrors THEN <<>> ELSE <<out.v>> :
                   out \in {ItemFinding(raw[n])}})])

parse_llm_findings(content) ==
    IF ~content.fence THEN <<>>
    ELSE IF content.loads.k = "raise" THEN <<>>
    ELSE LET raw == content.loads.v IN
         ItemFindings(IF ~IsList(raw) THEN <<raw>> ELSE raw.v)

MaxItems == 2

FixText == Str(<<"alias: a", "\n", "action: []", "\n">>)

LlmItem(severity, category, title) ==
    Dict(Opt("severity", severity) @@ Opt("category", category) @@ Opt("title", title)
         @@ ("automation_id" :> Str(<<"a1">>)))

GoodItems ==
    {LlmItem(Str(<<"warning">>), Str(<<"security">>), Str(<<"Lock is unguarded">>)),
     LlmItem(Str(<<"critical">>), Str(<<"redundancy">>), Str(<<"Duplicate trigger">>)),
     LlmItem(Absent, Absent, Absent),
     Dict(("severity" :> Str(<<"info">>)) @@ ("description" :> Str(<<"d">>))
          @@ ("suggested_yaml" :> FixText) @@ ("note" :> Str(<<"x">>)))}

BadItems ==
    {LlmItem(Str(<<"high">>), Str(<<"security">>), Str(<<"Bad severity">>)),
     LlmItem(Str(<<"warning">>), Str(<<"style">>), Str(<<"Bad category">>)),
     LlmItem(None, Str(<<"security">>), Str(<<"Null severity">>)),
     LlmItem(Str(<<"warning">>), List(<<>>), Absent),
     LlmItem(Str(<<"warning">>), Str(<<"security">>), None),
     Str(<<"note">>), Num(1), None}

LlmItems == GoodItems \cup BadItems

LlmContents ==
    {NoFenceText, Undecodable}
    \cup {JsonText(x) : x \in LlmItems}
    \cup {JsonText(List(s)) : s \in Seqs(LlmItems, MaxItems)}

ParseIdle == p_content = NoFenceText /\ p_out = <<>> /\ ppc = "idle"

ParseInit == p_content \in LlmContents /\ p_out = <<>> /\ ppc = "call"

ParseCall ==
    /\ ppc = "call"
    /\ p_out' = parse_llm_findings(p_content)
    /\ ppc' = "done"
    /\ UNCHANGED p_content
    /\ UNCHANGED <<quickfixReviewVars, validatorVars, rulesVars, dashRulesVars, reviewVars,
                   furtherVars>>

----------------------------------------------------------------------------
(* ReviewEngine.review_automations / review_dashboards (reviewer/engine.py) *)

LLMResponse(content, model, prompt_tokens, completion_tokens) ==
    [content |-> content, model |-> model, prompt_tokens |-> prompt_tokens,
     completion_tokens |-> completion_tokens]

\* model, prompt_tokens, completion_tokens before the LLM answered
NoUsage == [model |-> "", prompt_tokens |-> 0, completion_tokens |-> 0]

NoReview == [t |-> "none"]

ReviewResult(all_findings, summary, automations_reviewed, dashboards_reviewed, usage) ==
    [findings |-> all_findings, summary |-> summary,
     automations_reviewed |-> automations_reviewed,
     dashboards_reviewed |-> dashboards_reviewed,
     model |-> usage.model, prompt_tokens |-> usage.prompt_tokens,
     completion_tokens |-> usage.completion_tokens]

\* "3 critical, 1 info": the severities that occur, with their counts
SeverityLabels(list) ==
    LET Count(sev) == Cardinality({i \in DOMAIN list : list[i].severity = sev})
        present == SelectSeq(<<"critical", "warning", "suggestion", "info">>,
                             LAMBDA sev : Count(sev) > 0)
    IN  JoinSep([i \in DOMAIN present |-> ToString(Count(present[i])) \o " " \o present[i]],
                ", ")

\* the dash of the summaries is spelled "-"
build_summary(list, total) ==
    IF Len(list) = 0
    THEN <<"Reviewed ", ToString(total), " automation(s) - no issues found", ".">>
    ELSE <<"Reviewed ", ToString(total), " automation(s), found ", ToString(Len(list)),
           " issue(s): ">> \o SeverityLabels(list) \o <<".">>

build_dashboard_summary(list, views_count) ==
    IF Len(list) = 0
    THEN <<"Reviewed dashboard with ", ToString(views_count), " view(s) - no issues found",
           ".">>
    ELSE <<"Reviewed dashboard with ", ToString(views_count), " view(s), found ",
           ToString(Len(list)), " issue(s): ">> \o SeverityLabels(list) \o <<".">>

\* lines 52-54: `for automation in automations: rule_findings.extend(...)`;
\* the automations are left as run_all_rules leaves them
RECURSIVE RulesPhase(_, _, _)
RulesPhase(automations, n, acc) ==
    IF n > Len(automations)
    THEN [k |-> "return", v |-> acc, automations |-> automations]
    ELSE Only({IF out.k = "raise"
               THEN [k |-> "raise", e |-> out.e,
                     automations |-> [automations EXCEPT ![n] = out.automation]]
               ELSE RulesPhase([automations EXCEPT ![n] = out.automation], n + 1,
                               acc \o out.v) :
               out \in {run_all_rules(automations[n])}})

MaxAutomations == 2

\* a time_pattern trigger, no conditions, a lock call: warning, suggestion, critical
UnguardedLock ==
    RuleAutomation(
        List(<<Dict(("platform" :> Str(<<"time_pattern">>)) @@ ("seconds" :> Str(<<"/5">>)))>>),
        Absent, List(<<LockCall(Dict("entity_id" :> LockBack))>>))

GenericTurnOn ==
    RuleAutomation(Absent, Absent, List(<<RuleAction(TurnOn, Absent,
                                                    Dict("entity_id" :> LightEid))>>))

TemplateTarget ==
    RuleAutomation(Absent, Absent,
                   List(<<RuleAction(TurnOn, Str(<<"{{ target }}">>), Absent)>>))

ReviewAutomations ==
    {UnguardedLock, TemplateTarget, GenericTurnOn,
     RuleAutomation(List(<<Dict("platform" :> Str(<<"state">>))>>),
                    List(<<Dict("condition" :> Str(<<"state">>))>>), List(<<>>))}

ReviewDashboards ==
    {Dict(EmptyMap),
     Dict("views" :> List(<<RuleView(Str(<<"Home">>),
                                     LongColumn(TypedCard("button", TempEid)))>>)),
     Dict("views" :> List(<<RuleView(Str(<<"Hall">>),
                                     List(<<TypedCard("gauge", TempEid),
                                            TypedCard("button", TempEid)>>)),
                            RuleView(Absent, Absent)>>))}

\* a finding the rules also give, one they do not give, an invalid one
ReviewItems ==
    {LlmItem(Str(<<"critical">>), Str(<<"security">>),
             Str(<<"Sensitive domain without adequate guards: ", "lock", " (front door)">>)),
     LlmItem(Str(<<"critical">>), Str(<<"redundancy">>), Str(<<"Duplicate trigger">>)),
     LlmItem(Str(<<"high">>), Str(<<"security">>), Str(<<"Bad severity">>))}

ReviewContents ==
    {NoFenceText, Undecodable} \cup {JsonText(List(s)) : s \in Seqs(ReviewItems, MaxItems)}

\* what `await self._llm.generate(...)` does: it raises, or returns a response
LlmOutcomes ==
    {Raise("TimeoutError"), Raise("ValueError")}
    \cup {Return(LLMResponse(c, "m1", 10, 5)) : c \in ReviewContents}

ReviewIdle ==
    /\ rv_fn = "none" /\ rv_automations = <<>> /\ rv_dashboard = None
    /\ rv_known = None /\ rv_areas = None /\ rv_llm = Raise("none")
    /\ rv_rule_findings = <<>> /\ rv_llm_findings = <<>> /\ rv_usage = NoUsage
    /\ rv_result = NoReview /\ rvpc = "idle" /\ rv_exc = "none"

ReviewInit ==
    /\ \/ /\ rv_fn = "review_automations"
          /\ rv_automations \in Seqs(ReviewAutomations, MaxAutomations)
          /\ rv_dashboard = None /\ rv_known = None /\ rv_areas = None
       \/ /\ rv_fn = "review_dashboards"
          /\ rv_automations = <<>>
          /\ rv_dashboard \in ReviewDashboards
          /\ rv_known \in {None, PySet({TempEid, KitchenEid})}
          /\ rv_areas \in {None, List(<<Area("Kitchen")>>)}
    /\ rv_llm \in LlmOutcomes
    /\ rv_rule_findings = <<>> /\ rv_llm_findings = <<>> /\ rv_usage = NoUsage
    /\ rv_result = NoReview /\ rvpc = "rules" /\ rv_exc = "none"

\* lines 52-54
ReviewAutomationsRules ==
    /\ rvpc = "rules" /\ rv_fn = "review_automations"
    /\ \E out \in {RulesPhase(rv_automations, 1, <<>>)} :
          /\ rv_automations' = out.automations
          /\ IF out.k = "raise"
             THEN rvpc' = "raised" /\ rv_exc' = out.e /\ UNCHANGED rv_rule_findings
             ELSE rvpc' = "llm" /\ rv_rule_findings' = out.v /\ UNCHANGED rv_exc
    /\ UNCHANGED <<rv_fn, rv_dashboard, rv_known, rv_areas, rv_llm, rv_llm_findings,
                   rv_usage, rv_result>>
    /\ UNCHANGED <<quickfixReviewVars, validatorVars, rulesVars, dashRulesVars, parseVars,
                   furtherVars>>

\* line 118
ReviewDashboardsRules ==
    /\ rvpc = "rules" /\ rv_fn = "review_dashboards"
    /\ rv_rule_findings' = run_all_dashboard_rules(rv_dashboard, rv_known, rv_areas)
    /\ rvpc' = "llm"
    /\ UNCHANGED <<rv_fn, rv_automations, rv_dashboard, rv_known, rv_areas, rv_llm,
                   rv_llm_findings, rv_usage, rv_result, rv_exc>>
    /\ UNCHANGED <<quickfixReviewVars, validatorVars, rulesVars, dashRulesVars, parseVars,
                   furtherVars>>

\* mutant: a failure of the LLM call leaves the review
ReviewLlm_Propagates ==
    /\ rvpc = "llm"
    /\ IF rv_llm.k = "raise"
       THEN rvpc' = "raised" /\ rv_exc' = rv_llm.e
            /\ UNCHANGED <<rv_usage, rv_llm_findings>>
       ELSE /\ rv_usage' = [model |-> rv_llm.v.model,
                            prompt_tokens |-> rv_llm.v.prompt_tokens,
                            completion_tokens |-> rv_llm.v.completion_tokens]
            /\ rv_llm_findings' = parse_llm_findings(rv_llm.v.content)
            /\ rvpc' = "merge" /\ UNCHANGED rv_exc
    /\ UNCHANGED <<rv_fn, rv_automations, rv_dashboard, rv_known, rv_areas, rv_llm,
                   rv_rule_findings, rv_result>>
    /\ UNCHANGED <<quickfixReviewVars, validatorVars, rulesVars, dashRulesVars, parseVars,
                   furtherVars>>

\* the try block, lines 68-85 and 130-151: `except Exception` takes what
\* generate raises
ReviewLlm ==
    /\ rvpc = "llm"
    /\ IF rv_llm.k = "raise"
       THEN UNCHANGED <<rv_usage, rv_llm_findings>>
       ELSE /\ rv_usage' = [model |-> rv_llm.v.model,
                            prompt_tokens |-> rv_llm.v.prompt_tokens,
                            completion_tokens |-> rv_llm.v.completion_tokens]
            /\ rv_llm_findings' = parse_llm_findings(rv_llm.v.content)
    /\ rvpc' = "merge"
    /\ UNCHANGED <<rv_fn, rv_automations, rv_dashboard, rv_known, rv_areas, rv_llm,
                   rv_rule_findings, rv_result, rv_exc>>
    /\ UNCHANGED <<quickfixReviewVars, validatorVars, rulesVars, dashRulesVars, parseVars,
                   furtherVars>>

\* lines 88-101 and 154-167: merge, sort in place, summary, result
ReviewReturn ==
    /\ rvpc = "merge"
    /\ \E all_findings \in {sort_findings(merge_findings(rv_rule_findings, rv_llm_findings))} :
          rv_result' =
              IF rv_fn = "review_automations"
              THEN ReviewResult(all_findings,
                                build_summary(all_findings, Len(rv_automations)),
                                Len(rv_automations), 0, rv_usage)
              ELSE ReviewResult(all_findings,
                                build_dashboard_summary(all_findings,
                                                        Len(DashboardViews(rv_dashboard))),
                                0, 1, rv_usage)
    /\ rvpc' = "returned"
    /\ UNCHANGED <<rv_fn, rv_automations, rv_dashboard, rv_known, rv_areas, rv_llm,
                   rv_rule_findings, rv_llm_findings, rv_usage, rv_exc>>
    /\ UNCHANGED <<quickfixReviewVars, validatorVars, rulesVars, dashRulesVars, parseVars,
                   furtherVars>>

----------------------------------------------------------------------------
(* ReviewEngine.review_full (reviewer/engine.py): the two reviews as the    *)
(* calls they are, then the combination.                                    *)

\* lines 68-85 / 130-151: what the try block leaves in model, the token
\* counts and llm_findings
LlmPhase(llm) ==
    IF llm.k = "raise"
    THEN [usage |-> NoUsage, llm_findings |-> <<>>]
    ELSE [usage |-> [model |-> llm.v.model, prompt_tokens |-> llm.v.prompt_tokens,
                     completion_tokens |-> llm.v.completion_tokens],
          llm_findings |-> parse_llm_findings(llm.v.content)]

review_automations(automations, llm) ==
    Only({IF rules.k = "raise" THEN Raise(rules.e)
          ELSE Only({Return(ReviewResult(all_findings,
                                         build_summary(all_findings, Len(automations)),
                                         Len(automations), 0, LlmPhase(llm).usage)) :
                     all_findings \in
                        {sort_findings(merge_findings(rules.v, LlmPhase(llm).llm_findings))}}) :
          rules \in {RulesPhase(automations, 1, <<>>)}})

review_dashboards(dashboard, known_ids, areas, llm) ==
    Only({Return(ReviewResult(all_findings,
                              build_dashboard_summary(all_findings,
                                                      Len(DashboardViews(dashboard))),
                              0, 1, LlmPhase(llm).usage)) :
          all_findings \in
             {sort_findings(merge_findings(run_all_dashboard_rules(dashboard, known_ids, areas),
                                           LlmPhase(llm).llm_findings))}})

\* mutant: the concatenation is returned as it stands
FullResult_Unsorted(auto_result, dash_result) ==
    [findings |-> auto_result.findings \o dash_result.findings,
     summary |-> <<>>,
     automations_reviewed |-> auto_result.automations_reviewed,
     dashboards_reviewed |-> dash_result.dashboards_reviewed,
     model |-> IF auto_result.model # "" THEN auto_result.model ELSE dash_result.model,
     prompt_tokens |-> auto_result.prompt_tokens + dash_result.prompt_tokens,
     completion_tokens |-> auto_result.completion_tokens + dash_result.completion_tokens]

\* lines 187-204: concatenate, sort in place, summary, result
FullResult(auto_result, dash_result) ==
    Only({[findings |-> all_findings,
           summary |-> <<"Full review: ", ToString(auto_result.automations_reviewed),
                         " automation(s), ", ToString(dash_result.dashboards_reviewed),
                         " dashboard(s)", ".", " Found ", ToString(Len(all_findings)),
                         " total issue(s)", ".">>,
           automations_reviewed |-> auto_result.automations_reviewed,
           dashboards_reviewed |-> dash_result.dashboards_reviewed,
           \* auto_result.model or dash_result.model
           model |-> IF auto_result.model # "" THEN auto_result.model
                     ELSE dash_result.model,
           prompt_tokens |-> auto_result.prompt_tokens + dash_result.prompt_tokens,
           completion_tokens |->
               auto_result.completion_tokens + dash_result.completion_tokens] :
          all_findings \in {sort_findings(auto_result.findings \o dash_result.findings)}})

\* the automations of a full review: none, one with three findings of three
\* severities, two, and one whose rule phase raises
FullAutomations ==
    {<<>>, <<UnguardedLock>>, <<GenericTurnOn, UnguardedLock>>, <<TemplateTarget>>}

\* the LLM of the automation review and of the dashboard review answer apart
FullAutoOutcomes ==
    {Raise("TimeoutError"), Return(LLMResponse(NoFenceText, "", 4, 2))}
    \cup {Return(LLMResponse(JsonText(List(<<item>>)), "m1", 10, 5)) : item \in ReviewItems}

FullDashOutcomes ==
    {Raise("TimeoutError"), Return(LLMResponse(NoFenceText, "m2", 7, 3))}
    \cup {Return(LLMResponse(JsonText(List(<<item>>)), "m2", 7, 3)) : item \in ReviewItems}

FullIdle ==
    /\ fl_automations = <<>> /\ fl_dashboard = None
    /\ fl_llm_auto = Raise("none") /\ fl_llm_dash = Raise("none")
    /\ fl_auto = NoReview /\ fl_dash = NoReview /\ fl_result = NoReview
    /\ flpc = "idle" /\ fl_exc = "none"

FullInit ==
    /\ fl_automations \in FullAutomations
    /\ fl_dashboard \in ReviewDashboards
    /\ fl_llm_auto \in FullAutoOutcomes
    /\ fl_llm_dash \in FullDashOutcomes
    /\ fl_auto = NoReview /\ fl_dash = NoReview /\ fl_result = NoReview
    /\ flpc = "automations" /\ fl_exc = "none"

\* lines 179-181: auto_result = await self.review_automations(...)
FullReviewAutomations ==
    /\ flpc = "automations"
    /\ \E out \in {review_automations(fl_automations, fl_llm_auto)} :
          IF out.k = "raise"
          THEN flpc' = "raised" /\ fl_exc' = out.e /\ UNCHANGED fl_auto
          ELSE flpc' = "dashboards" /\ fl_auto' = out.v /\ UNCHANGED fl_exc
    /\ UNCHANGED <<fl_automations, fl_dashboard, fl_llm_auto, fl_llm_dash, fl_dash, fl_result>>
    /\ UNCHANGED <<earlierVars, flowVars, generateVars, sanitizeVars>>

\* lines 182-185: dash_result = await self.review_dashboards(...)
FullReviewDashboards ==
    /\ flpc = "dashboards"
    /\ \E out \in {review_dashboards(fl_dashboard, None, None, fl_llm_dash)} :
          fl_dash' = out.v
    /\ flpc' = "combine"
    /\ UNCHANGED <<fl_automations, fl_dashboard, fl_llm_auto, fl_llm_dash, fl_auto, fl_result,
                   fl_exc>>
    /\ UNCHANGED <<earlierVars, flowVars, generateVars, sanitizeVars>>

\* lines 187-204
FullReturn ==
    /\ flpc = "combine"
    /\ fl_result' = FullResult(fl_auto, fl_dash)
    /\ flpc' = "returned"
    /\ UNCHANGED <<fl_automations, fl_dashboard, fl_llm_auto, fl_llm_dash, fl_auto, fl_dash,
                   fl_exc>>
    /\ UNCHANGED <<earlierVars, flowVars, generateVars, sanitizeVars>>

----------------------------------------------------------------------------
(* quickfix/classifier.py: classify_findings, and the caller that hands    *)
(* its result to apply_batch.                                               *)

MaxFlow == 2

\* auto_map.get(automation_id): the last automation stored under the id
RECURSIVE AutoMapGet(_, _)
AutoMapGet(automations, automation_id) ==
    IF automations = <<>> THEN None
    ELSE LET a == automations[Len(automations)]
             aid == Get(a, "id", Str(<<>>))
         IN  IF Truthy(aid) /\ IsStr(aid) /\ Text(aid) = automation_id THEN a
             ELSE AutoMapGet(SubSeq(automations, 1, Len(automations) - 1), automation_id)

\* the list comprehension ends at the first classify that raises
RECURSIVE ClassifyEach(_, _, _)
ClassifyEach(list, automations, acc) ==
    IF list = <<>> THEN Return(acc)
    ELSE Only({IF out.k = "raise" THEN out
               ELSE ClassifyEach(Tail(list), automations, Append(acc, out.v)) :
               out \in {classify(list[1], AutoMapGet(automations, list[1].automation_id))}})

classify_findings(list, automations) ==
    IF ~Truthy(automations) THEN ClassifyEach(list, <<>>, <<>>)
    ELSE IF \E i \in DOMAIN automations.v : ~IsDict(automations.v[i])
    THEN Raise("AttributeError")                    \* a.get
    ELSE ClassifyEach(list, automations.v, <<>>)

\* the keyword arguments the reviewer's caller builds a finding from
FlowArgs ==
    [finding_id : {"f" \o ToString(n) : n \in 1..MaxFlow},
     category : {"deprecated_patterns", "missing_guards"},
     automation_id : AutomationIds,
     suggested_yaml : {None, Str(<<>>), Str(<<"service", ":", " ", "x">>)}]

FlowFinding(kw) ==
    ReviewFinding([finding_id |-> kw.finding_id, severity |-> "suggestion",
                   category |-> kw.category, automation_id |-> kw.automation_id,
                   title |-> <<"b">>, description |-> <<"x">>,
                   suggested_yaml |-> kw.suggested_yaml])

FlowAutomation(id, action) == Dict(("id" :> Str(<<id>>)) @@ ("action" :> List(<<action>>)))

LightAction ==
    MkAction(Str(<<"light", ".", "turn_on">>), Dict("entity_id" :> LightEid), Absent)
LockAction ==
    MkAction(Str(<<"homeassistant", ".", "turn_on">>), Dict("entity_id" :> LockEid), Absent)
CoverAction == MkAction(Str(<<"cover", ".", "open_cover">>), Absent, Absent)
TemplateAction == MkAction(Str(<<"light", ".", "turn_on">>), Absent, Template)

\* no automations; a sensitive and a harmless one; one id given twice, the
\* sensitive record first or last; a record classify raises on
FlowAutomations ==
    {None,
     List(<<FlowAutomation("a1", LockAction), FlowAutomation("a2", LightAction)>>),
     List(<<FlowAutomation("a1", LightAction), FlowAutomation("a1", CoverAction)>>),
     List(<<FlowAutomation("a1", CoverAction), FlowAutomation("a1", LightAction)>>),
     List(<<FlowAutomation("a2", TemplateAction), FlowAutomation("a1", LockAction)>>)}

FlowDeployFns ==
    {[kind |-> "none"], [kind |-> "fn", raises |-> {}], [kind |-> "fn", raises |-> {"a1"}]}

FlowIdle ==
    /\ q_args = <<>> /\ q_automations = None /\ q_confirmed = {}
    /\ q_deploy_fn = [kind |-> "none"] /\ q_out = NoOutcome /\ qpc = "idle"

FlowInit ==
    /\ \E n \in 0..MaxFlow :
          q_args \in {s \in [1..n -> FlowArgs] :
                        \A i \in 1..n : s[i].finding_id = "f" \o ToString(i)}
    /\ q_automations \in FlowAutomations
    /\ q_confirmed \in {{}, {"f1"}}
    /\ q_deploy_fn \in FlowDeployFns
    /\ q_out = NoOutcome /\ qpc = "classify"

\* enriched = classify_findings(findings, automations)
ClassifyFindingsCall ==
    /\ qpc = "classify"
    /\ \E out \in {classify_findings([i \in DOMAIN q_args |-> FlowFinding(q_args[i])],
                                     q_automations)} :
          /\ q_out' = out
          /\ qpc' = IF out.k = "raise" THEN "raised" ELSE "apply"
    /\ UNCHANGED <<q_args, q_automations, q_confirmed, q_deploy_fn>>
    /\ UNCHANGED <<earlierVars, fullVars, generateVars, sanitizeVars>>

\* await apply_batch(enriched, confirmed_sensitive, deploy_fn): the call
ApplyBatchCall ==
    /\ qpc = "apply" /\ bpc = "idle"
    /\ enriched_findings' = q_out.v
    /\ confirmed_sensitive' = q_confirmed
    /\ deploy_fn' = q_deploy_fn
    /\ bpc' = "start"
    /\ qpc' = "batch"
    /\ UNCHANGED <<batch_args, quick_fixes, results, deployed, idx, batch_return, batch_exc>>
    /\ UNCHANGED <<q_args, q_automations, q_confirmed, q_deploy_fn, q_out>>
    /\ UNCHANGED <<classifyVars, mergeVars, sortVars, validatorVars, reviewerVars, fullVars,
                   generateVars, sanitizeVars>>

----------------------------------------------------------------------------
(* validator/pipeline.py as the calls the endpoint makes, and               *)
(* api/generate.py: the retry loop of generate_automation.  The database    *)
(* write of _save_generation succeeds and returns an id.                    *)

\* lines 22-31 of validate: the checks after a syntax check that passed
ValidateParsed(result, known) ==
    Extended(Extended(result, check_entity_refs(result.yaml_parsed, known)),
             check_service_calls(result.yaml_parsed))

validate(text, known) ==
    Only({IF out.k = "raise" THEN out
          ELSE IF ~out.v.valid \/ out.v.yaml_parsed = None THEN out
          ELSE Return(ValidateParsed(out.v, known)) : out \in {check_yaml_syntax(text)}})

\* lines 44-55 of validate_dashboard: the checks after a syntax check that
\* passed
ValidateDashboardParsed(result, known) ==
    Only({IF HasError(schema_issues)
          THEN Return([Extended(result, schema_issues) EXCEPT !.valid = FALSE])
          ELSE Only({IF cards.k = "raise" THEN cards
                     ELSE Return(Extended(Extended(Extended(result, schema_issues), cards.v),
                                          check_entity_refs(result.yaml_parsed, known)))
                     : cards \in {check_card_types(result.yaml_parsed)}})
          : schema_issues \in {check_dashboard_schema(result.yaml_parsed)}})

validate_dashboard(text, known) ==
    Only({IF out.k = "raise" THEN out
          ELSE IF ~out.v.valid \/ out.v.yaml_parsed = None THEN out
          ELSE ValidateDashboardParsed(out.v, known) : out \in {check_yaml_syntax(text)}})

MAX_RETRIES == 2

\* an LLM answer: the YAML text, inside a code fence or bare
Content(fence, text) == [fence |-> fence, text |-> text]

\* str.strip() of a text
Strip(text) == IF text.chars = "blank" THEN EmptyText ELSE text

\* the fenced part, or the whole content, stripped
extract_yaml_from_response(content) == Strip(content.text)

GenerateTexts ==
    {EmptyText, YamlText(None),
     YamlText(YAMLError("mapping values are not allowed here", Num(2))),
     YamlText(Commented(AutomationDoc(<<VAction(Str(<<"light", ".", "turn_on">>),
                                               KitchnEid)>>))),
     YamlText(Commented(DashboardDoc(Absent))),
     YamlText(Commented(DashboardDoc(List(<<Num(3)>>)))),
     YamlText(Commented(DashboardDoc(List(<<View(List(<<GaugeCard(Absent)>>))>>)))),
     YamlText(Commented(List(<<View(Absent)>>)))}

GenerateContents ==
    {Content(TRUE, text) : text \in GenerateTexts} \cup {Content(FALSE, BlankText)}

\* what `await llm_backend.generate(...)` does at one call
GenerateLlmOutcomes ==
    {Raise("ConnectionError")}
    \cup {Return(LLMResponse(content, "m1", 10, 5)) : content \in GenerateContents}

NoResponse == [t |-> "none"]

GenerateResponse(mode, yaml_output, llm_response, validation, retries) ==
    [generation_id |-> "saved", mode |-> mode, yaml_output |-> yaml_output,
     raw_response |-> llm_response.content, model |-> llm_response.model,
     prompt_tokens |-> llm_response.prompt_tokens,
     completion_tokens |-> llm_response.completion_tokens,
     validation |-> validation, retries |-> retries]

GenerateIdle ==
    /\ g_mode = "none" /\ g_known = {} /\ g_attempt = 0 /\ g_retries = 0
    /\ g_last_error = <<>> /\ g_prompts = <<>> /\ g_llm = NoResponse
    /\ g_validations = <<>> /\ g_response = NoResponse /\ gpc = "idle" /\ g_exc = "none"

GenerateInit ==
    /\ g_mode \in {"automation", "dashboard"}
    /\ g_known \in KnownSets
    /\ g_attempt = 0 /\ g_retries = 0 /\ g_last_error = <<>> /\ g_prompts = <<>>
    /\ g_llm = NoResponse /\ g_validations = <<>> /\ g_response = NoResponse
    /\ gpc = "call" /\ g_exc = "none"

\* mutant: a syntax failure is retried however many attempts were made
ShouldRetry_WhileSyntaxFails(validation, attempt) ==
    \E i \in DOMAIN validation.issues : validation.issues[i].check_name = "yaml_syntax"

\* lines 188-189: syntax_errors and attempt < MAX_RETRIES
ShouldRetry(validation, attempt) ==
    /\ \E i \in DOMAIN validation.issues : validation.issues[i].check_name = "yaml_syntax"
    /\ attempt < MAX_RETRIES

\* line 217, the statement after the loop, is never reached: the last
\* iteration (attempt = MAX_RETRIES) returns or raises

\* lines 149-164: the head of an iteration of `for attempt in
\* range(1 + MAX_RETRIES)`: the prompt, and the LLM call
GenerateCallLlm ==
    /\ gpc = "call" /\ g_attempt < 1 + MAX_RETRIES
    /\ g_prompts' = Append(g_prompts, g_last_error)
    /\ \E out \in GenerateLlmOutcomes :
          IF out.k = "raise"
          THEN gpc' = "raised" /\ g_exc' = "HTTPException 502" /\ UNCHANGED g_llm
          ELSE gpc' = "validate" /\ g_llm' = out.v /\ UNCHANGED g_exc
    /\ UNCHANGED <<g_mode, g_known, g_attempt, g_retries, g_last_error, g_validations,
                   g_response>>
    /\ UNCHANGED <<earlierVars, fullVars, flowVars, sanitizeVars>>

\* lines 166-214: extract, validate, and return or go round again
GenerateValidate ==
    /\ gpc = "validate"
    /\ \E yaml_output \in {extract_yaml_from_response(g_llm.content)} :
       \E out \in {IF g_mode = "dashboard" THEN validate_dashboard(yaml_output, g_known)
                   ELSE validate(yaml_output, g_known)} :
          IF out.k = "raise"
          THEN /\ gpc' = "raised" /\ g_exc' = out.e
               /\ UNCHANGED <<g_attempt, g_retries, g_last_error, g_validations, g_response>>
          ELSE /\ g_validations' = Append(g_validations, out.v)
               /\ IF ~out.v.valid /\ ShouldRetry(out.v, g_attempt)
                  THEN /\ g_last_error' =
                             (SelectSeq(out.v.issues,
                                        LAMBDA i : i.check_name = "yaml_syntax"))[1].message
                       /\ g_retries' = g_retries + 1
                       /\ g_attempt' = g_attempt + 1
                       /\ gpc' = "call"
                       /\ UNCHANGED g_response
                  ELSE /\ g_response' = GenerateResponse(g_mode, yaml_output, g_llm, out.v,
                                                         g_retries)
                       /\ gpc' = "returned"
                       /\ UNCHANGED <<g_attempt, g_retries, g_last_error>>
               /\ UNCHANGED g_exc
    /\ UNCHANGED <<g_mode, g_known, g_prompts, g_llm>>
    /\ UNCHANGED <<earlierVars, fullVars, flowVars, sanitizeVars>>

----------------------------------------------------------------------------
(* deployer/dashboard_engine.py: _sanitize_url_path.  A title is a sequence *)
(* of characters; "U+00E9" is the small e with an acute accent.             *)

Digits == {"0", "1", "2", "3", "4", "5", "6", "7", "8", "9"}

\* the characters [a-z0-9]
SlugChars == {SubSeq(LowerLetters, i, i) : i \in 1..Len(LowerLetters)} \cup Digits

\* title.lower()
Lowered(title) == [i \in DOMAIN title |-> LowerChar(title[i])]

\* re.sub(r"[^a-z0-9]+", "-", s): every maximal run of other characters
\* becomes one hyphen
RECURSIVE ReSubOthers(_, _)
ReSubOthers(s, in_run) ==
    IF s = <<>> THEN <<>>
    ELSE IF Head(s) \in SlugChars THEN <<Head(s)>> \o ReSubOthers(Tail(s), FALSE)
    ELSE IF in_run THEN ReSubOthers(Tail(s), TRUE)
    ELSE <<"-">> \o ReSubOthers(Tail(s), TRUE)

\* s.strip("-")
StripHyphens(s) ==
    LET kept == {i \in DOMAIN s : s[i] # "-"} IN
    IF kept = {} THEN <<>>
    ELSE SubSeq(s, CHOOSE i \in kept : \A j \in kept : i <= j,
                   CHOOSE i \in kept : \A j \in kept : j <= i)

UrlPathLimit == 64

_sanitize_url_path(title) ==
    LET slug == StripHyphens(ReSubOthers(Lowered(title), FALSE))
        named == IF slug = <<>>
                 THEN <<"a", "u", "t", "o", "g", "e", "n", "-">>
                      \o <<"d", "a", "s", "h", "b", "o", "a", "r", "d">>
                 ELSE slug
        hyphenated == IF \E i \in DOMAIN named : named[i] = "-"
                      THEN named
                      ELSE <<"a", "u", "t", "o", "g", "e", "n", "-">> \o named
    IN SubSeq(hyphenated, 1, IF Len(hyphenated) < UrlPathLimit THEN Len(hyphenated)
                             ELSE UrlPathLimit)

\* how far a run of one character goes beyond the limit
MaxOverrun == 2

Run(c, n) == [i \in 1..n |-> c]

TitleRuns ==
    {Run(c, n) : c \in {"a", "Z", "7"},
                 n \in (0..2) \cup ((UrlPathLimit - 9)..(UrlPathLimit + MaxOverrun))}

TitleSeparators ==
    {<<>>, <<" ">>, <<"-">>, <<"-", "-">>, <<"!", " ", "!">>, <<"U+00E9">>}

TitleTails == {<<>>, <<"b">>, <<"B", "_", "2">>, <<"!">>}

SanitizeTitles ==
    {lead \o run \o sep \o tail :
        lead \in {<<>>, <<" ">>}, run \in TitleRuns, sep \in TitleSeparators,
        tail \in TitleTails}

SanitizeIdle == u_title = <<>> /\ u_result = <<>> /\ upc = "idle"

SanitizeInit == u_title \in SanitizeTitles /\ u_result = <<>> /\ upc = "call"

SanitizeUrlPathCall ==
    /\ upc = "call"
    /\ u_result' = _sanitize_url_path(u_title)
    /\ upc' = "returned"
    /\ UNCHANGED u_title
    /\ UNCHANGED <<earlierVars, fullVars, flowVars, generateVars>>

----------------------------------------------------------------------------
(* Specifications: one per component, the other components idle. *)

EngineIdle == ParseIdle /\ ReviewIdle
ReviewerIdle == RulesIdle /\ DashRulesIdle /\ EngineIdle
FurtherIdle == FullIdle /\ FlowIdle /\ GenerateIdle /\ SanitizeIdle
LaterIdle == ValidatorIdle /\ ReviewerIdle /\ FurtherIdle

InitBatch == BatchInit /\ ClassifyIdle /\ MergeIdle /\ SortIdle /\ LaterIdle
NextBatch == BatchFilter \/ BatchIterate \/ BatchReturn
SpecBatch == InitBatch /\ [][NextBatch]_vars

InitClassify == BatchIdle /\ ClassifyInit /\ MergeIdle /\ SortIdle /\ LaterIdle
NextClassify == ClassifyCall
SpecClassify == InitClassify /\ [][NextClassify]_vars

InitMerge == BatchIdle /\ ClassifyIdle /\ MergeInit /\ SortIdle /\ LaterIdle
NextMerge == MergeCall
SpecMerge == InitMerge /\ [][NextMerge]_vars

InitSort == BatchIdle /\ ClassifyIdle /\ MergeIdle /\ SortInit /\ LaterIdle
NextSort == SortCall
SpecSort == InitSort /\ [][NextSort]_vars

QuickfixReviewIdle == BatchIdle /\ ClassifyIdle /\ MergeIdle /\ SortIdle

InitValidator == QuickfixReviewIdle /\ ValidatorInit /\ ReviewerIdle /\ FurtherIdle
NextValidator ==
    SyntaxStage \/ SchemaStage \/ CardTypesStage \/ EntityRefsStage \/ ServiceCallsStage
SpecValidator == InitValidator /\ [][NextValidator]_vars

InitRules ==
    /\ QuickfixReviewIdle /\ ValidatorIdle /\ RulesInit /\ DashRulesIdle /\ EngineIdle
    /\ FurtherIdle
NextRules ==
    \/ TriggerEfficiencyCall \/ MissingGuardsCall \/ SecurityConcernsCall
    \/ DeprecatedPatternsCall \/ RunAllRulesCall
SpecRules == InitRules /\ [][NextRules]_vars

InitDashRules ==
    /\ QuickfixReviewIdle /\ ValidatorIdle /\ RulesIdle /\ DashRulesInit /\ EngineIdle
    /\ FurtherIdle
NextDashRules ==
    \/ UnusedEntitiesCall \/ InconsistentCardsCall \/ MissingAreaCoverageCall
    \/ CardTypeRecommendationsCall \/ LayoutOptimizationCall \/ RunAllDashboardRulesCall
SpecDashRules == InitDashRules /\ [][NextDashRules]_vars

RulesAllIdle == RulesIdle /\ DashRulesIdle

InitParse ==
    /\ QuickfixReviewIdle /\ ValidatorIdle /\ RulesAllIdle /\ ParseInit /\ ReviewIdle
    /\ FurtherIdle
NextParse == ParseCall
SpecParse == InitParse /\ [][NextParse]_vars

InitReview ==
    /\ QuickfixReviewIdle /\ ValidatorIdle /\ RulesAllIdle /\ ParseIdle /\ ReviewInit
    /\ FurtherIdle
NextReview ==
    ReviewAutomationsRules \/ ReviewDashboardsRules \/ ReviewLlm \/ ReviewReturn
SpecReview == InitReview /\ [][NextReview]_vars

EarlierIdle == QuickfixReviewIdle /\ ValidatorIdle /\ ReviewerIdle

InitFull == EarlierIdle /\ FullInit /\ FlowIdle /\ GenerateIdle /\ SanitizeIdle
NextFull == FullReviewAutomations \/ FullReviewDashboards \/ FullReturn
SpecFull == InitFull /\ [][NextFull]_vars

InitQuickfix == EarlierIdle /\ FullIdle /\ FlowInit /\ GenerateIdle /\ SanitizeIdle
NextQuickfix ==
    ClassifyFindingsCall \/ ApplyBatchCall \/ BatchFilter \/ BatchIterate \/ BatchReturn
SpecQuickfix == InitQuickfix /\ [][NextQuickfix]_vars

\* the handler runs on: every await of it resolves, by a value or an exception
InitGenerate == EarlierIdle /\ FullIdle /\ FlowIdle /\ GenerateInit /\ SanitizeIdle
NextGenerate == GenerateCallLlm \/ GenerateValidate
SpecGenerate == InitGenerate /\ [][NextGenerate]_vars
SpecGenerateLive == SpecGenerate /\ WF_vars(NextGenerate)

InitSanitize == EarlierIdle /\ FullIdle /\ FlowIdle /\ GenerateIdle /\ SanitizeInit
NextSanitize == SanitizeUrlPathCall
SpecSanitize == InitSanitize /\ [][NextSanitize]_vars

Init ==
    \/ InitBatch \/ InitClassify \/ InitMerge \/ InitSort \/ InitValidator
    \/ InitRules \/ InitDashRules \/ InitParse \/ InitReview \/ InitFull
    \/ InitQuickfix \/ InitGenerate \/ InitSanitize
Next ==
    \/ NextBatch \/ NextClassify \/ NextMerge \/ NextSort \/ NextValidator
    \/ NextRules \/ NextDashRules \/ NextParse \/ NextReview \/ NextFull
    \/ NextQuickfix \/ NextGenerate \/ NextSanitize
Spec == Init /\ [][Next]_vars

----------------------------------------------------------------------------
(* Properties of apply_batch, checked under SpecBatch *)

BatchDone == bpc \in {"returned", "raised"}

\* the caller's findings that pass the filter, and their position among them
IsQuickArg(kw) == kw.fix_type = QUICK /\ kw.fix_yaml # None
QuickRank(i) == Cardinality({j \in 1..i : IsQuickArg(batch_args[j])})
QuickCount == QuickRank(Len(batch_args))
Unconfirmed(i) ==
    /\ IsQuickArg(batch_args[i])
    /\ batch_args[i].requires_confirmation
    /\ batch_args[i].finding_id \notin confirmed_sensitive
Eligible(i) == IsQuickArg(batch_args[i]) /\ ~Unconfirmed(i)
DeployRaisesFor(i) ==
    deploy_fn.kind = "fn" /\ batch_args[i].automation_id \in deploy_fn.raises
WasDeployed(i) == \E k \in DOMAIN deployed : deployed[k] = QuickRank(i)

\* C1: once apply_batch has ended, every QUICK finding with fix_yaml that
\* requires confirmation and whose finding_id is not in the confirmed set was
\* never handed to the apply function, and a failed result with the error
\* "Sensitive domain fix not confirmed" is recorded for it.
C1_UnconfirmedSensitiveRefused ==
    BatchDone =>
        \A i \in DOMAIN batch_args :
            Unconfirmed(i) =>
                /\ ~WasDeployed(i)
                /\ QuickRank(i) <= Len(results)
                /\ results[QuickRank(i)].success = FALSE
                /\ results[QuickRank(i)].error = NotConfirmedError

\* C2: for every input apply_batch returns a BatchResult, and that result
\* satisfies total == len(results) == applied + failed.
C2_BatchAccounting ==
    BatchDone =>
        /\ bpc = "returned"
        /\ batch_return.total = Len(batch_return.results)
        /\ batch_return.total = batch_return.applied + batch_return.failed

\* C3: when the apply function raises for an item, apply_batch itself does not
\* raise; that item is recorded as failed with the error's message, the items
\* whose apply call succeeded are recorded as successes, and every eligible
\* item is processed.
C3_DeployFailureContained ==
    (BatchDone /\ \E i \in DOMAIN batch_args : Eligible(i) /\ DeployRaisesFor(i)) =>
        /\ bpc = "returned"
        /\ Len(results) = QuickCount
        /\ \A i \in DOMAIN batch_args :
              Eligible(i) =>
                  /\ results[QuickRank(i)].success = ~DeployRaisesFor(i)
                  /\ DeployRaisesFor(i) => results[QuickRank(i)].error = DeployError

\* C4: results, and the apply calls, follow the input order restricted to the
\* QUICK findings with fix_yaml; nothing else appears in results or is applied.
C4_ResultsFollowFilteredOrder ==
    BatchDone =>
        /\ Len(results) = QuickCount
        /\ \A i \in DOMAIN batch_args :
              IsQuickArg(batch_args[i]) =>
                  /\ results[QuickRank(i)].finding_id = batch_args[i].finding_id
                  /\ results[QuickRank(i)].automation_id = batch_args[i].automation_id
        /\ \A k \in DOMAIN deployed :
              /\ \E i \in DOMAIN batch_args : Eligible(i) /\ QuickRank(i) = deployed[k]
              /\ k > 1 => deployed[k - 1] < deployed[k]
        /\ deploy_fn.kind = "fn" =>
              \A i \in DOMAIN batch_args : Eligible(i) => WasDeployed(i)

----------------------------------------------------------------------------
(* Properties of _merge_findings, checked under SpecMerge *)

\* the dedup key as the specification words it
ClaimKey(f) ==
    <<f.automation_id, f.category,
      [i \in 1..(IF Len(f.title) < 30 THEN Len(f.title) ELSE 30) |-> f.title[i]]>>

InMerged(f) == \E k \in DOMAIN merged : merged[k] = f

CollidesWithRule(f) ==
    \E j \in DOMAIN rule_findings : ClaimKey(rule_findings[j]) = ClaimKey(f)

\* C5: the merge keeps every deterministic finding, and no LLM finding whose
\* key (automation_id, category, first 30 characters of title) equals the key
\* of a deterministic finding is in the merged list.
C5_DeterministicWins ==
    mpc = "done" =>
        /\ \A j \in DOMAIN rule_findings : InMerged(rule_findings[j])
        /\ \A i \in DOMAIN llm_findings :
              CollidesWithRule(llm_findings[i]) => ~InMerged(llm_findings[i])

\* a collision by prefix only (the titles differ after 30 characters), and a
\* non-colliding LLM finding kept beside it
C5_Witness ==
    /\ mpc = "done"
    /\ \E i \in DOMAIN llm_findings : \E j \in DOMAIN rule_findings :
          /\ ClaimKey(llm_findings[i]) = ClaimKey(rule_findings[j])
          /\ llm_findings[i].title # rule_findings[j].title
          /\ ~InMerged(llm_findings[i])
          /\ InMerged(rule_findings[j])
    /\ \E i \in DOMAIN llm_findings : InMerged(llm_findings[i])

----------------------------------------------------------------------------
(* Properties of _sort_findings, checked under SpecSort *)

ClaimRank(severity) ==
    CASE severity = "critical" -> 0 [] severity = "warning" -> 1
      [] severity = "suggestion" -> 2 [] severity = "info" -> 3

\* C6: after _sort_findings the severities are in non-decreasing rank order,
\* findings of equal severity keep their relative input order, and the list is
\* a permutation of the input.
C6_SortStable ==
    spc = "sorted" =>
        /\ \A i, j \in DOMAIN findings :
              i < j => ClaimRank(findings[i].severity) <= ClaimRank(findings[j].severity)
        /\ \A i, j \in DOMAIN findings :
              (i < j /\ findings[i].severity = findings[j].severity)
                  => findings[i].pos < findings[j].pos
        /\ Len(findings) = Len(sort_input)
        /\ \A p \in DOMAIN sort_input :
              \E i \in DOMAIN findings : findings[i] = sort_input[p]

\* an input that is out of order and has a tie
C6_Witness ==
    /\ spc = "sorted"
    /\ findings # sort_input
    /\ \E i, j \in DOMAIN sort_input :
          /\ i < j /\ sort_input[i].severity = sort_input[j].severity
          /\ \E k \in DOMAIN sort_input :
                i < k /\ k < j /\ ClaimRank(sort_input[k].severity)
                                    < ClaimRank(sort_input[i].severity)

----------------------------------------------------------------------------
(* Properties of classify, checked under SpecClassify *)

Returned == cpc = "done" /\ c_out.k = "return"

\* C7: for every category, finding text and automation record (or none),
\* classify returns an EnrichedFinding whose fix_type is QUICK or GUIDED and
\* never throws.
C7_ClassifyTotal ==
    cpc = "done" => (c_out.k = "return" /\ c_out.v.fix_type \in {QUICK, GUIDED})

\* C8: a finding whose category would suggest QUICK (deprecated_patterns,
\* card_type_recommendation, inconsistent_cards, or non-sensitive
\* missing_guards) but whose suggested_yaml is None is classified GUIDED.
C8_QuickWithoutYamlIsGuided ==
    (/\ Returned
     /\ \/ c_finding.category \in {"deprecated_patterns", "card_type_recommendation",
                                   "inconsistent_cards"}
        \/ c_finding.category = "missing_guards" /\ ~c_out.v.requires_confirmation
     /\ c_finding.suggested_yaml = None)
    => c_out.v.fix_type = GUIDED

C8_Witness ==
    /\ Returned
    /\ c_finding.category = "missing_guards" /\ ~c_out.v.requires_confirmation
    /\ c_finding.suggested_yaml = None
    /\ c_automation # None
    /\ c_out.v.fix_type = GUIDED

\* The decision table of the claim; Present(y) says when suggested_yaml counts
\* as present.
DecisionTable(Present(_)) ==
    Returned =>
        LET cat  == c_finding.category
            sens == c_out.v.requires_confirmation
            ft   == c_out.v.fix_type
        IN  /\ cat \in {"security", "redundancy", "error_resilience",
                        "layout_optimization", "missing_area_coverage",
                        "unused_entities", "trigger_efficiency"} => ft = GUIDED
            /\ (cat = "missing_guards" /\ sens) => ft = GUIDED
            /\ (/\ \/ cat \in {"deprecated_patterns", "card_type_recommendation",
                               "inconsistent_cards"}
                   \/ cat = "missing_guards" /\ ~sens
                /\ Present(c_finding.suggested_yaml)) => ft = QUICK

IsNotNone(y) == y # None
IsNonEmpty(y) == y # None /\ y.v # <<>>

\* C9 as stated: fix_type follows the decision table, QUICK whenever
\* suggested_yaml is present (not None).
C9_DecisionTable == DecisionTable(IsNotNone)

\* C9 amended: fix_type follows the decision table, QUICK when suggested_yaml
\* is a non-empty string (an empty one gives GUIDED).
C9_DecisionTableNonEmpty ==
    /\ DecisionTable(IsNonEmpty)
    /\ (Returned /\ c_finding.suggested_yaml = Str(<<>>)) => c_out.v.fix_type = GUIDED

C9_Witness ==
    /\ Returned
    /\ c_finding.category = "missing_guards" /\ ~c_out.v.requires_confirmation
    /\ c_finding.suggested_yaml # None /\ c_finding.suggested_yaml.v # <<>>
    /\ c_automation # None
    /\ c_out.v.fix_type = QUICK

\* The three conditions of the sensitivity check as the specification words them.
ClaimSensitive == {"lock", "alarm_control_panel", "cover", "camera", "siren"}

\* the text before the first "." is a sensitive domain
ClaimDomainSensitive(s) ==
    /\ Len(s) >= 1 /\ s[1] \in ClaimSensitive
    /\ Len(s) >= 2 => s[2] = "."

ClaimA ==
    LET text == c_finding.title \o <<" ">> \o c_finding.description
    IN  \E i \in DOMAIN text : text[i] \in ClaimSensitive

ClaimActionItems(v) ==
    IF IsDict(v) THEN {v}
    ELSE IF IsList(v) THEN {v.v[i] : i \in {j \in DOMAIN v.v : IsDict(v.v[j])}}
    ELSE {}

ClaimActions ==
    IF IsDict(c_automation)
    THEN UNION {ClaimActionItems(c_automation.v[k]) :
                    k \in DOMAIN c_automation.v \cap {"action", "actions"}}
    ELSE {}

ClaimEntityIds(container) ==
    IF IsDict(container) /\ "entity_id" \in DOMAIN container.v
    THEN LET e == container.v["entity_id"]
         IN  IF IsStr(e) THEN {e.v}
             ELSE IF IsList(e) THEN {e.v[i].v : i \in {j \in DOMAIN e.v : IsStr(e.v[j])}}
             ELSE {}
    ELSE {}

ClaimActionSensitive(a) ==
    \/ /\ "service" \in DOMAIN a.v /\ IsStr(a.v["service"])
       /\ ClaimDomainSensitive(a.v["service"].v)
    \/ \E k \in DOMAIN a.v \cap {"target", "data"} :
          \E e \in ClaimEntityIds(a.v[k]) : ClaimDomainSensitive(e)

ClaimB == \E a \in ClaimActions : ClaimActionSensitive(a)

ClaimC ==
    \E y \in {c_finding.current_yaml, c_finding.suggested_yaml} :
        /\ y # None
        /\ \E i \in 1..(Len(y.v) - 1) : y.v[i] \in ClaimSensitive /\ y.v[i + 1] = "."

\* C10: requires_confirmation of the returned finding is true exactly when
\* (a) a sensitive-domain name is a substring of title + " " + description, or
\* (b) an action of the automation has a sensitive service prefix or a
\* sensitive target.entity_id / data.entity_id domain, or (c) current_yaml or
\* suggested_yaml contains "<domain>." for a sensitive domain; whatever fix_type.
C10_RequiresConfirmation ==
    Returned => (c_out.v.requires_confirmation <=> (ClaimA \/ ClaimB \/ ClaimC))

\* sensitive only through data.entity_id of a second action, fix still QUICK
C10_Witness ==
    /\ Returned
    /\ c_out.v.requires_confirmation /\ ~ClaimA /\ ~ClaimC
    /\ \E a \in ClaimActions :
          /\ "data" \in DOMAIN a.v
          /\ \E e \in ClaimEntityIds(a.v["data"]) : ClaimDomainSensitive(e)
    /\ Cardinality(ClaimActions) >= 2
    /\ c_out.v.fix_type = QUICK

----------------------------------------------------------------------------
(* Claims about the validation pipelines. *)

ErrorIssues(result) ==
    {i \in DOMAIN result.issues : result.issues[i].severity = "error"}
IssuesOf(result, check_name) ==
    {i \in DOMAIN result.issues : result.issues[i].check_name = check_name}
SchemaErrors(result) == ErrorIssues(result) \cap IssuesOf(result, "dashboard_schema")

\* the text is empty, blank, unparseable or parses to null
SyntaxFails(text) ==
    \/ text.chars \in {"empty", "blank"}
    \/ text.load.t = "YAMLError"
    \/ text.load = None

\* C11: in validate_dashboard, once the schema check has appended an Error
\* issue the result is returned at once with valid = false: the card-type
\* and entity-ref checks have not run and the result holds none of their
\* issues.
C11_SchemaErrorShortCircuits ==
    (v_fn = "validate_dashboard" /\ SchemaErrors(v_result) # {})
        => /\ vpc = "returned"
           /\ ~v_result.valid
           /\ v_ran = <<"yaml_syntax", "dashboard_schema">>
           /\ IssuesOf(v_result, "card_type") = {}
           /\ IssuesOf(v_result, "entity_refs") = {}

\* a schema error on a document whose cards and entities would have drawn
\* warnings had the later checks run
C11_Witness ==
    /\ v_fn = "validate_dashboard" /\ vpc = "returned"
    /\ SchemaErrors(v_result) # {}
    /\ check_card_types(v_result.yaml_parsed) # Return(<<>>)
    /\ check_entity_refs(v_result.yaml_parsed, known_entity_ids) # <<>>

\* C12: validate ends by returning; when the syntax check fails the result
\* is valid = false with the syntax issue alone and no other check has run;
\* otherwise the entity-ref check and then the service-call check have run,
\* the issues are theirs in that order, and valid is true.
C12_ValidateStages ==
    (v_fn = "validate" /\ vpc \in {"returned", "raised"})
        => /\ vpc = "returned"
           /\ IF SyntaxFails(yaml_str)
              THEN /\ ~v_result.valid
                   /\ v_ran = <<"yaml_syntax">>
                   /\ Len(v_result.issues) = 1
                   /\ v_result.issues[1].check_name = "yaml_syntax"
              ELSE /\ v_result.valid
                   /\ v_ran = <<"yaml_syntax", "entity_refs", "service_calls">>
                   /\ v_result.issues =
                        check_entity_refs(v_result.yaml_parsed, known_entity_ids)
                        \o check_service_calls(v_result.yaml_parsed)

\* C13 as stated: a result returned with valid = false holds exactly one
\* Error issue.
C13_ExactlyOneError ==
    (vpc = "returned" /\ ~v_result.valid) => Cardinality(ErrorIssues(v_result)) = 1

NonMapViews(text) ==
    LET views == text.load.v["views"].v
    IN  {n \in DOMAIN views : ~IsDict(views[n])}

ViewsIsList(text) ==
    /\ IsDict(text.load) /\ "views" \in DOMAIN text.load.v
    /\ IsList(text.load.v["views"])

\* C13 amended: a result returned with valid = false holds at least one
\* Error issue: exactly one for a syntax failure or a document-level schema
\* error, and one per non-map view otherwise.
C13_OneErrorPerFailure ==
    (vpc = "returned" /\ ~v_result.valid)
        => /\ Cardinality(ErrorIssues(v_result)) >= 1
           /\ Cardinality(ErrorIssues(v_result)) =
                IF ~SyntaxFails(yaml_str) /\ ViewsIsList(yaml_str)
                THEN Cardinality(NonMapViews(yaml_str)) ELSE 1

\* a dashboard with two views that are no maps
C13_Witness ==
    /\ vpc = "returned" /\ ~v_result.valid
    /\ Cardinality(ErrorIssues(v_result)) = 2

\* C14: validate returns valid = false only after a syntax failure,
\* validate_dashboard only after a syntax failure or a schema Error issue,
\* and a returned result whose issues are all Warnings is valid.
C14_AdvisoryNeverFlips ==
    vpc = "returned"
        => /\ (~v_result.valid /\ v_fn = "validate") => SyntaxFails(yaml_str)
           /\ (~v_result.valid /\ v_fn = "validate_dashboard")
                => (SyntaxFails(yaml_str) \/ SchemaErrors(v_result) # {})
           /\ (\A i \in DOMAIN v_result.issues :
                    v_result.issues[i].severity = "warning") => v_result.valid

\* a returned result with a schema warning and further warnings, still valid
C14_Witness ==
    /\ vpc = "returned" /\ v_result.valid
    /\ IssuesOf(v_result, "dashboard_schema") # {}
    /\ Len(v_result.issues) >= 2
    /\ \A i \in DOMAIN v_result.issues : v_result.issues[i].severity = "warning"

\* C15: for a text that parses to a mapping or a list, check_yaml_syntax
\* does not raise and returns valid = true, no issues, and the parsed value
\* as a plain mapping / list.
C15_SyntaxAcceptsMapAndList ==
    (yaml_str.chars = "yaml" /\ (IsDict(yaml_str.load) \/ IsList(yaml_str.load))
        /\ vpc \notin {"idle", "syntax"})
        => /\ v_ran # <<>>
           /\ v_ran = <<"yaml_syntax">>
                => /\ v_result.valid
                   /\ v_result.issues = <<>>
                   /\ ~IsRuamel(v_result.yaml_parsed)
                   /\ v_result.yaml_parsed.t = yaml_str.load.t
                   /\ v_result.yaml_parsed.v = yaml_str.load.v


----------------------------------------------------------------------------
(* Properties of the automation rule checks, checked under SpecRules *)

\* C20: the rule checks are pure: a call of run_all_rules or of any single
\* check leaves the automation record as the caller built it (the actions'
\* target.entity_id and data.entity_id included), and a check called again
\* on the record has the same outcome.
C20_RulesArePure ==
    /\ r_automation = r_given
    /\ \A i, j \in DOMAIN r_runs :
          r_runs[i].check = r_runs[j].check
          => /\ r_runs[i].k = r_runs[j].k
             /\ r_runs[i].v = r_runs[j].v
             /\ r_runs[i].e = r_runs[j].e


----------------------------------------------------------------------------
(* Properties of the dashboard checks, checked under SpecDashRules *)

\* the cards the card-type check of the validator visits: every card, and
\* below a horizontal-stack, vertical-stack or grid card its nested cards
RECURSIVE NestedCards(_)
NestedCards(cards) ==
    Flatten([n \in DOMAIN cards |-> <<cards[n]>> \o NestedCards(SubCards(cards[n]))])

DashboardCards(dashboard) ==
    LET views == DashboardViews(dashboard) IN
    Flatten([n \in DOMAIN views |-> NestedCards(Get(views[n], "cards", List(<<>>)).v)])

\* the cards with an entity of their own, containers aside
EntityCards(dashboard) ==
    {card \in SetOf(DashboardCards(dashboard)) :
        /\ ~NameIn(Get(card, "type", Str(<<>>)), StackTypes)
        /\ Truthy(Get(card, "entity", None))}

CollectorCalls ==
    {"check_unused_entities", "check_inconsistent_cards",
     "check_card_type_recommendations", "run_all_dashboard_rules"}

\* C18: the collector of the dashboard checks flattens as the card-type
\* check does: the entity of a card nested at any depth inside
\* horizontal-stack, vertical-stack or grid cards is collected with that
\* card's type, and check_unused_entities does not report it as unused.
C18_CollectorFlattensContainers ==
    d_call \in CollectorCalls =>
        /\ \A card \in EntityCards(d_dashboard) :
              <<card.v["entity"], Get(card, "type", Str(<<>>))>> \in SetOf(d_pairs)
        /\ (/\ d_call = "check_unused_entities"
            /\ \A eid \in d_known.v :
                  \E card \in EntityCards(d_dashboard) : card.v["entity"] = eid)
           => d_findings = <<>>

\* text contains sub as a substring
Contains(text, sub) ==
    \E i \in 1..(Len(text) - Len(sub) + 1) : SubSeq(text, i, i + Len(sub) - 1) = sub

AreaName(area) == Text(Get(area, "name", Str(<<>>)))

LowerTitles(dashboard) ==
    LET views == DashboardViews(dashboard) IN
    {Lower(Text(Get(views[n], "title", Str(<<>>)))) : n \in DOMAIN views}

\* the findings are those of the areas that satisfy Uncovered, one each,
\* in the order of the areas
OneFindingPer(Uncovered(_)) ==
    LET uncovered == SelectSeq(d_areas.v, Uncovered) IN
    /\ Len(d_findings) = Len(uncovered)
    /\ \A i \in DOMAIN uncovered :
          /\ d_findings[i].severity = "suggestion"
          /\ d_findings[i].category = "missing_area_coverage"
          /\ d_findings[i].title = <<"No dashboard view for area: ", AreaName(uncovered[i])>>

\* C19 as stated: check_missing_area_coverage emits one Suggestion finding
\* for a known area exactly when no view's lower-cased title contains the
\* lower-cased area name as a substring.
C19_SubstringCoverage ==
    d_call = "check_missing_area_coverage" =>
        OneFindingPer(LAMBDA area :
            \A title \in LowerTitles(d_dashboard) :
                ~Contains(title, Lower(AreaName(area))))

\* C19, amended: check_missing_area_coverage emits one Suggestion finding
\* for a known area with a non-empty name exactly when no view's
\* lower-cased title equals the lower-cased area name; a name that is only
\* contained in a longer title still yields a finding, an area without a
\* name yields none.
C19_ExactTitleCoverage ==
    d_call = "check_missing_area_coverage" =>
        OneFindingPer(LAMBDA area :
            /\ AreaName(area) # ""
            /\ \A title \in LowerTitles(d_dashboard) : title # Lower(AreaName(area)))

\* the area Kitchen, a view titled "Kitchen Lights" and no other view: the
\* check has reported the area
C19_Witness ==
    /\ d_call = "check_missing_area_coverage"
    /\ d_areas = List(<<Area("Kitchen")>>)
    /\ LowerTitles(d_dashboard) = {"kitchen lights"}
    /\ Len(d_findings) = 1


----------------------------------------------------------------------------
(* Properties of _parse_llm_findings, checked under SpecParse *)

\* the items of the decoded response: a value that is no list is the one item
ResponseItems(content) ==
    LET raw == content.loads.v IN IF IsList(raw) THEN raw.v ELSE <<raw>>

Decoded(content) == content.fence /\ content.loads.k = "return"

\* an item every field of which the model accepts
WellFormedItem(item) ==
    /\ IsDict(item)
    /\ \A key \in {"severity"} \cap DOMAIN item.v :
          IsStr(item.v[key]) /\ Join(item.v[key].v) \in FindingSeverity
    /\ \A key \in {"category"} \cap DOMAIN item.v :
          IsStr(item.v[key]) /\ Join(item.v[key].v) \in FindingCategory
    /\ \A key \in {"automation_id", "automation_alias", "title", "description"}
                   \cap DOMAIN item.v : IsStr(item.v[key])
    /\ \A key \in {"current_yaml", "suggested_yaml"} \cap DOMAIN item.v :
          IsStr(item.v[key]) \/ item.v[key] = None

\* the finding carries what the item gives, the defaults elsewhere
FindingOfItem(finding, item) ==
    /\ finding.severity = Join(Get(item, "severity", Str(<<"info">>)).v)
    /\ finding.category = Join(Get(item, "category", Str(<<"error_resilience">>)).v)
    /\ finding.automation_id = Join(Get(item, "automation_id", Str(<<>>)).v)
    /\ finding.title = Get(item, "title", Str(<<"Untitled finding">>)).v
    /\ finding.description = Get(item, "description", Str(<<>>)).v
    /\ finding.suggested_yaml = Get(item, "suggested_yaml", None)

\* C17: an item with an invalid severity or category value is dropped on
\* its own: the findings returned are those of the well-formed items of the
\* response, every one of them, in their original order; a response whose
\* top level is a single object is parsed as the one-element list of it.
C17_InvalidItemsDroppedAlone ==
    (ppc = "done" /\ Decoded(p_content)) =>
        LET good == SelectSeq(ResponseItems(p_content), WellFormedItem) IN
        /\ Len(p_out) = Len(good)
        /\ \A i \in DOMAIN good : FindingOfItem(p_out[i], good[i])

\* an item with an invalid severity, then a well-formed item: the second
\* one was returned
C17_Witness ==
    /\ ppc = "done" /\ Decoded(p_content)
    /\ Len(ResponseItems(p_content)) = 2
    /\ IsDict(ResponseItems(p_content)[1])
    /\ Get(ResponseItems(p_content)[1], "severity", None) = Str(<<"high">>)
    /\ WellFormedItem(ResponseItems(p_content)[2])
    /\ Len(p_out) = 1


----------------------------------------------------------------------------
(* Properties of review_automations and review_dashboards, checked under   *)
(* SpecReview                                                              *)

\* the LLM call raised, or its content has no fenced block, or the block
\* does not decode
LlmFailed ==
    \/ rv_llm.k = "raise"
    \/ /\ rv_llm.k = "return"
       /\ \/ ~rv_llm.v.content.fence
          \/ rv_llm.v.content.loads.k = "raise"

\* some automation on which the deterministic rules themselves raise
RulesRaise ==
    /\ rv_fn = "review_automations"
    /\ \E n \in DOMAIN rv_automations : run_all_rules(rv_automations[n]).k = "raise"

SortedBySeverity(list) ==
    \A i, j \in DOMAIN list :
        i < j => SeverityOrder(list[i].severity) <= SeverityOrder(list[j].severity)

ReviewResultFields ==
    {"findings", "summary", "automations_reviewed", "dashboards_reviewed", "model",
     "prompt_tokens", "completion_tokens"}

\* C16: when the LLM call raises, or returns content without a fenced block
\* or with undecodable JSON, review_automations and review_dashboards do not
\* raise (the deterministic rules having returned): they return a complete
\* ReviewResult whose findings are exactly the rule findings, sorted by
\* severity.
C16_LlmFailureDegrades ==
    (rv_fn # "none" /\ LlmFailed) =>
        /\ rvpc = "raised" => RulesRaise
        /\ rvpc = "returned" =>
              /\ DOMAIN rv_result = ReviewResultFields
              /\ rv_result.findings = sort_findings(rv_rule_findings)
              /\ SortedBySeverity(rv_result.findings)
              /\ Len(rv_result.findings) = Len(rv_rule_findings)
              /\ Len(rv_result.summary) > 0
              /\ rv_result.automations_reviewed = Len(rv_automations)
              /\ rv_result.dashboards_reviewed
                    = (IF rv_fn = "review_dashboards" THEN 1 ELSE 0)

\* the LLM call raised after the rules gave a warning, a suggestion and a
\* critical finding: the review returned them, the critical one first
C16_Witness ==
    /\ rvpc = "returned" /\ rv_llm = Raise("TimeoutError")
    /\ Len(rv_rule_findings) >= 3
    /\ rv_rule_findings[1].severity = "warning"
    /\ rv_result.findings[1].severity = "critical"
    /\ rv_result.model = ""

----------------------------------------------------------------------------
(* Properties of the security rule, checked under SpecRules *)

\* the entity ids an action names under target.entity_id or data.entity_id
IdsUnder(action, key) ==
    LET holder == IF key \in DOMAIN action.v /\ IsDict(action.v[key])
                  THEN action.v[key] ELSE Dict(EmptyMap)
        ids == Get(holder, "entity_id", List(<<>>))
    IN  IF IsStr(ids) THEN {ids} ELSE SetOf(ids.v)

DomainsNamed(ids) == {DomainOf(x) : x \in {y \in ids : DotIn(y) = "true"}}

ServiceDomains(action) ==
    LET service == Get(action, "service", Str(<<>>)) IN
    IF DotIn(service) = "true" THEN {DomainOf(service)} ELSE {}

IsSensitiveAction(action) ==
    (ServiceDomains(action) \cup DomainsNamed(IdsUnder(action, "target"))
     \cup DomainsNamed(IdsUnder(action, "data"))) \cap SENSITIVE_DOMAINS # {}

SecurityRuns ==
    {i \in DOMAIN r_runs :
        r_runs[i].check = "check_security_concerns" /\ r_runs[i].k = "return"}

SensitiveActions(automation) ==
    SelectSeq(get_action_list(automation), IsSensitiveAction)

\* C21: a returning call of check_security_concerns has exactly one
\* finding for each action whose service domain, target.entity_id domains
\* or data.entity_id domains meet the sensitive set, none for the other
\* actions, and each finding is a security finding that is critical when
\* the automation has no conditions and a warning otherwise.
C21_OneSecurityFindingPerSensitiveAction ==
    \A i \in SecurityRuns :
        LET given == r_runs[i].given
            out == r_runs[i].v
        IN  /\ Len(out) = Len(SensitiveActions(given))
            /\ \A j \in DOMAIN out :
                  /\ out[j].category = "security"
                  /\ out[j].severity =
                        (IF Len(get_condition_list(given)) = 0
                         THEN "critical" ELSE "warning")

\* a guarded automation with a sensitive action between two harmless ones
\* came back with its one warning
C21_Witness ==
    \E i \in SecurityRuns :
        /\ Len(get_action_list(r_runs[i].given)) = 3
        /\ Len(SensitiveActions(r_runs[i].given)) = 1
        /\ Len(get_condition_list(r_runs[i].given)) > 0
        /\ Len(r_runs[i].v) = 1
        /\ r_runs[i].v[1].severity = "warning"

----------------------------------------------------------------------------
(* Properties of the entity reference check, checked under SpecValidator *)

RecognizedKeys == {"entity_id", "entity", "entities"}

\* every entity-ID-shaped string of a document that sits under a recognized
\* key: as its value, as an element of its list, however deep the key is
RECURSIVE Occurrences(_, _)
Occurrences(obj, recognized) ==
    IF IsDict(obj) THEN
        Flatten([i \in DOMAIN Keys(obj) |->
            Occurrences(obj.v[Keys(obj)[i]], Keys(obj)[i] \in RecognizedKeys)])
    ELSE IF IsList(obj) THEN
        Flatten([i \in DOMAIN obj.v |-> Occurrences(obj.v[i], recognized)])
    ELSE IF recognized /\ IsEntityIdStr(obj) THEN <<obj>>
    ELSE <<>>

\* the value of a recognized key itself: the string, or the strings of the list
OwnStrings(value) ==
    IF IsEntityIdStr(value) THEN {value}
    ELSE IF IsList(value) THEN {x \in SetOf(value.v) : IsEntityIdStr(x)}
    ELSE {}

\* the ids found when the value of entity_id / entity is taken as it stands
\* and every other value is walked into
RECURSIVE ReachableIds(_)
ReachableIds(obj) ==
    IF IsDict(obj) THEN
        UNION {IF key \in {"entity_id", "entity"} THEN OwnStrings(obj.v[key])
               ELSE IF key = "entities"
                    THEN (IF IsList(obj.v[key]) THEN OwnStrings(obj.v[key]) ELSE {})
                         \cup ReachableIds(obj.v[key])
               ELSE ReachableIds(obj.v[key]) : key \in DOMAIN obj.v}
    ELSE IF IsList(obj) THEN UNION {ReachableIds(obj.v[i]) : i \in DOMAIN obj.v}
    ELSE {}

RefsRan == \E i \in DOMAIN v_ran : v_ran[i] = "entity_refs"

RefIssues == SelectSeq(v_result.issues, LAMBDA issue : issue.check_name = "entity_refs")

\* the id an entity_refs issue names: Unknown entity_id '<id>' at <path>
IssueId(issue) == Str(SubSeq(issue.message, 2, 4))

ReportedIds == {IssueId(RefIssues[i]) : i \in DOMAIN RefIssues}

UnknownOf(ids) == {x \in ids : x \notin known_entity_ids}

\* C22 as stated: every entity-ID-shaped string under an entity_id, entity
\* or entities key is extracted at whatever depth it sits, inside a map or
\* list-of-maps under a recognized key included, so each unknown one is
\* reported.
C22_EveryNestedValueWalked ==
    RefsRan =>
        ReportedIds = UnknownOf(SetOf(Occurrences(v_result.yaml_parsed, FALSE)))

\* C22: the extractor walks into every value under an unrecognized key and
\* under an entities key, and takes the value of an entity_id or entity key
\* as it stands: the ids reported are the unknown ones among the strings
\* that are the value of an entity_id or entity key, an element of the list
\* of an entity_id, entity or entities key, at whatever depth the key sits
\* outside the value of an entity_id or entity key.
C22_WalksAllButEntityValues ==
    RefsRan => ReportedIds = UnknownOf(ReachableIds(v_result.yaml_parsed))

\* an id four levels down under unrecognized keys was reported, and one
\* inside the map of an entity_id key was passed over
C22_Witness ==
    /\ RefsRan
    /\ yaml_str \in {YamlText(Commented(d)) : d \in DeepRefDocs}
    /\ KitchnEid \in ReportedIds
    /\ TempEid \in SetOf(Occurrences(v_result.yaml_parsed, FALSE)) \ ReportedIds

\* C29: the entity-reference check emits exactly one entity_refs warning
\* per occurrence of an unknown entity id in the document: a reference
\* written as a map with an entity key inside an entities list gives one
\* issue, not two.
C29_OneIssuePerOccurrence ==
    RefsRan =>
        /\ Len(RefIssues)
              = Len(SelectSeq(Occurrences(v_result.yaml_parsed, FALSE),
                              LAMBDA x : x \notin known_entity_ids))
        /\ \A i \in DOMAIN RefIssues : RefIssues[i].severity = "warning"

----------------------------------------------------------------------------
(* Properties of the card-type check, checked under SpecValidator *)

Containers == {"horizontal-stack", "vertical-stack", "grid"}

\* the cards of a list and, below each container card, the cards of its list
RECURSIVE CardsBelow(_)
CardsBelow(cards) ==
    Flatten([n \in DOMAIN cards |->
        IF ~IsDict(cards[n]) THEN <<>>
        ELSE <<cards[n]>>
             \o (IF NameIn(Get(cards[n], "type", Str(<<>>)), Containers)
                    /\ IsList(Get(cards[n], "cards", List(<<>>)))
                 THEN CardsBelow(Get(cards[n], "cards", List(<<>>)).v) ELSE <<>>)])

\* every card of the document that a view's card list leads to
ReachableCards(parsed) ==
    LET views == parsed.v["views"].v IN
    Flatten([n \in DOMAIN views |->
        IF IsDict(views[n]) /\ IsList(Get(views[n], "cards", List(<<>>)))
        THEN CardsBelow(Get(views[n], "cards", List(<<>>)).v) ELSE <<>>])

TypeOf(card) == Get(card, "type", Str(<<>>))
LacksType(card) == ~Truthy(TypeOf(card))
UnknownType(card) == ~LacksType(card) /\ ~NameIn(TypeOf(card), VALID_CARD_TYPES)
LacksEntity(card) ==
    /\ ~LacksType(card) /\ NameIn(TypeOf(card), EntityRequired)
    /\ "entity" \notin DOMAIN card.v

CountOf(s, Test(_)) == Len(SelectSeq(s, Test))

CardIssues == SelectSeq(v_result.issues, LAMBDA issue : issue.check_name = "card_type")

NamesEntity(issue) ==
    /\ Len(issue.message) >= 3
    /\ SubSeq(issue.message, Len(issue.message) - 2, Len(issue.message))
          = <<"' card is missing required field '", "entity", "'.">>

CardTypesRan == \E i \in DOMAIN v_ran : v_ran[i] = "card_type"

\* C23: once the card-type check has returned, the card_type issues are one
\* per card without a type, one per card of a type outside the allow-list
\* and one naming "entity" per card lacking the entity its type requires,
\* counted over every card reachable through horizontal-stack,
\* vertical-stack and grid containers at any depth; each is a warning, and
\* the result validate_dashboard returns is valid.
C23_EveryReachableCardChecked ==
    CardTypesRan =>
        LET cards == ReachableCards(v_result.yaml_parsed) IN
        /\ Len(CardIssues) = CountOf(cards, LacksType) + CountOf(cards, UnknownType)
                             + CountOf(cards, LacksEntity)
        /\ CountOf(CardIssues, NamesEntity) = CountOf(cards, LacksEntity)
        /\ \A i \in DOMAIN CardIssues : CardIssues[i].severity = "warning"
        /\ vpc = "returned" => v_result.valid

\* a gauge without entity two containers deep, the outer one a grid, was
\* returned with its one warning naming "entity" and valid = true
C23_Witness ==
    /\ CardTypesRan /\ vpc = "returned" /\ v_result.valid
    /\ LET cards == ReachableCards(v_result.yaml_parsed) IN
       /\ Len(cards) = 3
       /\ NameIn(TypeOf(cards[1]), {"grid"})
       /\ LacksEntity(cards[3]) /\ NameIn(TypeOf(cards[3]), {"gauge"})
    /\ Len(CardIssues) = 1
    /\ NamesEntity(CardIssues[1])

----------------------------------------------------------------------------
(* Uniqueness of dedup keys after the merge, checked under SpecMerge *)

SharedKeys(i, j) == i < j /\ ClaimKey(merged[i]) = ClaimKey(merged[j])

\* C26 as stated: no two findings of the merged list share the dedup key
\* (automation_id, category, first 30 characters of title), two
\* deterministic findings of one key included.
C26_MergedKeysUnique ==
    mpc = "done" => \A i, j \in DOMAIN merged : ~SharedKeys(i, j)

\* C26: in the merged list no LLM finding shares its dedup key with any
\* other finding (of two LLM findings of one key only the first is kept),
\* and two findings that do share a key are both deterministic ones, which
\* the merge keeps as they came.
C26_OnlyRuleFindingsShareKeys ==
    mpc = "done" =>
        /\ \A i, j \in DOMAIN merged :
              SharedKeys(i, j) => merged[i].origin = "rule" /\ merged[j].origin = "rule"
        /\ \A i, j \in DOMAIN llm_findings :
              (i < j /\ ClaimKey(llm_findings[i]) = ClaimKey(llm_findings[j]))
                  => ~InMerged(llm_findings[j])

\* two LLM findings of one key went in and the first alone came out
C26_Witness ==
    /\ mpc = "done"
    /\ \E i, j \in DOMAIN llm_findings :
          /\ i < j /\ ClaimKey(llm_findings[i]) = ClaimKey(llm_findings[j])
          /\ InMerged(llm_findings[i]) /\ ~InMerged(llm_findings[j])

----------------------------------------------------------------------------
(* Properties of review_full, checked under SpecFull *)

\* the stable sort by severity: the findings of each severity in turn, in
\* the order they had
BySeverity(list) ==
    SelectSeq(list, LAMBDA f : f.severity = "critical")
    \o SelectSeq(list, LAMBDA f : f.severity = "warning")
    \o SelectSeq(list, LAMBDA f : f.severity = "suggestion")
    \o SelectSeq(list, LAMBDA f : f.severity = "info")

\* C24: review_full runs the automation review and then the dashboard
\* review; what it returns has the findings of the two, automation findings
\* first, in stable severity order, the sums of their prompt and completion
\* token counts, and the model of the automation review when that is
\* non-empty, else the model of the dashboard review.
C24_FullCombinesBothReviews ==
    /\ flpc \in {"combine", "returned"}
          => /\ fl_auto = review_automations(fl_automations, fl_llm_auto).v
             /\ fl_dash = review_dashboards(fl_dashboard, None, None, fl_llm_dash).v
    /\ flpc = "dashboards" => fl_dash = NoReview
    /\ flpc = "returned"
          => /\ fl_result.findings = BySeverity(fl_auto.findings \o fl_dash.findings)
             /\ fl_result.prompt_tokens = fl_auto.prompt_tokens + fl_dash.prompt_tokens
             /\ fl_result.completion_tokens
                   = fl_auto.completion_tokens + fl_dash.completion_tokens
             /\ fl_result.model
                   = (IF fl_auto.model # "" THEN fl_auto.model ELSE fl_dash.model)

\* a critical dashboard finding was sorted ahead of an automation finding,
\* the automation model was empty and the dashboard model was taken
C24_Witness ==
    /\ flpc = "returned"
    /\ fl_auto.findings # <<>> /\ fl_dash.findings # <<>>
    /\ fl_result.findings # fl_auto.findings \o fl_dash.findings
    /\ fl_auto.model = "" /\ fl_result.model = "m2"
    /\ fl_result.prompt_tokens > fl_dash.prompt_tokens

----------------------------------------------------------------------------
(* Properties of classify_findings followed by apply_batch, checked under  *)
(* SpecQuickfix                                                            *)

Supplied == IF q_automations = None THEN <<>> ELSE q_automations.v

\* the supplied automations stored under the finding's automation_id; the
\* last one is the one the id resolves to
Resolving(i) ==
    {n \in DOMAIN Supplied : Text(Supplied[n].v["id"]) = q_args[i].automation_id}
Resolved(i) == Supplied[CHOOSE n \in Resolving(i) : \A m \in Resolving(i) : m <= n]

ActionsReferenceSensitive(automation) ==
    \E n \in DOMAIN automation.v["action"].v :
        IsSensitiveAction(automation.v["action"].v[n])

GuardedFinding(i) ==
    /\ Resolving(i) # {}
    /\ ActionsReferenceSensitive(Resolved(i))
    /\ q_args[i].finding_id \notin q_confirmed

\* the enriched finding of finding i was among the quick fixes and the apply
\* function was invoked for it
FlowRank(i) == Cardinality({j \in 1..i : IsQuickFix(q_out.v[j])})
DeployedFor(i) ==
    /\ q_out.k = "return" /\ IsQuickFix(q_out.v[i])
    /\ \E k \in DOMAIN deployed : deployed[k] = FlowRank(i)

C30_TotalCountsQuickFindings ==
    /\ q_out.k = "return" =>
          \A i \in DOMAIN q_out.v :
              /\ q_out.v[i].fix_type = QUICK <=> q_out.v[i].fix_yaml # None
              /\ q_out.v[i].fix_yaml # None
                    => /\ q_out.v[i].fix_yaml = q_args[i].suggested_yaml
                       /\ q_args[i].suggested_yaml.v # <<>>
    /\ (qpc = "batch" /\ bpc \in {"returned", "raised"}) =>
          /\ bpc = "returned"
          /\ batch_return.total
                = Cardinality({i \in DOMAIN q_out.v : q_out.v[i].fix_type = QUICK})

----------------------------------------------------------------------------
(* The retry loop of the generate endpoint.                                 *)

HasSyntaxIssue(validation) ==
    \E i \in DOMAIN validation.issues : validation.issues[i].check_name = "yaml_syntax"

\* the LLM calls made so far
LlmCalls == Len(g_prompts)

\* the attempts whose validation was followed by another attempt
RetriedAttempts ==
    IF gpc = "returned" THEN 1 .. (Len(g_validations) - 1) ELSE 1 .. Len(g_validations)

GenerateDone == gpc \in {"returned", "raised"}

RetryLoopBounded ==
    /\ LlmCalls <= 1 + MAX_RETRIES
    /\ \A n \in RetriedAttempts :
          /\ ~g_validations[n].valid
          /\ HasSyntaxIssue(g_validations[n])
          /\ n <= MAX_RETRIES
    /\ gpc = "returned" =>
          /\ g_response.validation = g_validations[Len(g_validations)]
          /\ g_response.retries = LlmCalls - 1

\* C27: the retry loop of the generate endpoint always ends, by a response
\* or an HTTP error, after at most 1 + MAX_RETRIES (3) LLM calls; every
\* attempt that was followed by another had failed validation with a
\* yaml_syntax issue and was not the last attempt allowed, so a valid result
\* and a failure without a yaml_syntax issue are returned at once; and the
\* retries count of the response is the number of LLM calls made minus one.
C27_RetryLoopTerminates == []RetryLoopBounded /\ <>GenerateDone

\* a response came back after three LLM calls, the third answer failing on
\* syntax like the two before it, with retries = 2
C27_Witness ==
    /\ gpc = "returned"
    /\ LlmCalls = 1 + MAX_RETRIES
    /\ g_response.retries = MAX_RETRIES
    /\ ~g_response.validation.valid
    /\ HasSyntaxIssue(g_response.validation)

----------------------------------------------------------------------------
(* The url_path made from a dashboard title.                                *)

HasHyphen(s) == \E i \in DOMAIN s : s[i] = "-"

\* C28: for every title, _sanitize_url_path returns a string of at most 64
\* characters that contains at least one hyphen and consists only of
\* lowercase letters, digits and hyphens.
C28_UrlPathWellFormed ==
    upc = "returned" =>
        /\ Len(u_result) <= UrlPathLimit
        /\ HasHyphen(u_result)
        /\ \A i \in DOMAIN u_result : u_result[i] \in SlugChars \cup {"-"}

====
